---------------------------- MODULE Spec2Model ----------------------------
(***************************************************************************)
(* A model of lens_calibrate.py: the generate_xml aggregation and emission, *)
(* the worker-pool dispatch of the distortion / tca / vignetting workflows, *)
(* the TCA output parser, the PGM header decoder and the radial binning of  *)
(* the vignetting analysis.                                                  *)
(*                                                                           *)
(* Text is modelled as a tuple of one-character strings, so that parsing,   *)
(* splitting and comparison are computed and not assumed.                    *)
(***************************************************************************)
EXTENDS Integers, Sequences, FiniteSets, TLC

VARIABLES
    \* ---- generate_xml: the files it reads, the tree, the record it writes
    confExists,     \* os.path.isfile('lenses.conf')
    confFile,       \* lenses.conf: sequence of sections [name, distortion]
    tcaFiles,       \* tca/exported/*.tca in scan order
    vigFiles,       \* vignetting/exported/*.vig in scan order
    lenses,         \* the aggregated tree, lens model -> record
    lensOrder,      \* insertion order of the keys of lenses
    xpc,            \* position of run_generate_xml
    xerr,           \* the exception that ended run_generate_xml, or "none"
    scanPos,        \* number of artifact files of the current scan merged
    emitPos,        \* index in lensOrder of the lens being emitted
    outExists,      \* the output file has been created
    output,         \* the elements written to the output file, in order
    workdir,        \* the files of the working directory, artifacts apart
    archive,        \* the members of lensfun_calibration.tar.xz, once made
    \* ---- tca_correct: the detector's output and what is parsed from it
    tcaFields,      \* the eight fields the detector printed
    tcaText,        \* the captured output text
    tcaData,        \* tca_data_match: [matched, groups]
    tcaPc,          \* "start" or "done"
    \* ---- load_pgm: the file read and what it returns
    pgmBuf,         \* the header text of the file
    pgmPayload,     \* the number of bytes that follow the header
    pgmResult,      \* [status, width, height, dtype, itemsize, byteorder]
    pgmPc,          \* "start" or "done"
    \* ---- calculate_vignetting: the radial binning
    vigExists,      \* the .vig file of the raster exists
    rasterW,        \* width of the decoded raster
    rasterH,        \* height of the decoded raster
    samples,        \* the retained samples, in scan order
    bins,           \* bin index -> the samples (by position) put in it
    binErr,         \* the exception that ended the analysis, or "none"
    binPc,          \* "start", "collected", "binned" or "raised"
    \* ---- run_distortion, run_tca, run_vignetting: one invocation
    workflow,       \* "distortion", "tca" or "vignetting"
    complex_tca,    \* the --complex-tca switch
    cpu_count,      \* multiprocessing.cpu_count()
    nImages,        \* the number of raw files to dispatch (files 1..nImages)
    dirThere,       \* the workflow's input directory exists
    sidecarOk,      \* the sidecar file is there or can be written
    lenses_config_exists,  \* lenses.conf existed when the run started
    lensesConf,     \* lenses.conf: "absent", "edited" (as found) or "template"
    startComplete,  \* every per-image artifact existed when the run started
    artifacts,      \* file -> the artifacts of that file which exist
    job,            \* file -> state of its job in the executor
    result_futures, \* the futures the dispatcher has kept
    collected,      \* the futures whose result() the dispatcher has taken
    excPending,     \* an exception is on its way out of the with block
    invoked,        \* the external tools run so far in this invocation
    postStep,       \* "none", "template", "merge" or "skipped"
    wpc,            \* position of the dispatcher
    \* ---- one job of a workflow, run on its own
    jobWorkflow,    \* the workflow the job belongs to
    jobComplex,     \* the --complex-tca switch
    jobArts,        \* the artifacts of the file that exist before the job
    jobTools,       \* tool -> what the tool does in this job
    jobOut,         \* what the job left: artifacts, tools run, messages
    jobReturn,      \* "none", "True" or "exception"
    jobPc,          \* "start" or "done"
    jobRun,         \* 1 in the first invocation, 2 in the one after it
    \* ---- image_read_exif: the tags of a file and the sample returned
    exifTags,       \* tag -> its value as a tuple of words, <<>> when absent
    exifTool,       \* what exiftool does: "ok", "dash", "fail" or "missing"
    exifOut,        \* [status, lens_model, ..., mount]
    exifPc,         \* "start" or "done"
    \* ---- the walk over a workflow's input directory
    walkWorkflow,   \* the workflow whose directory is walked
    walkComplex,    \* the --complex-tca switch
    walkFiles,      \* the files os.walk yields, as <<path, filename>>
    walkPos,        \* the number of files the loop has gone through
    submitted,      \* the jobs submitted, in order
    walkSidecar,    \* the sidecar file: [state, content]
    walkPc,         \* "start", "walk", "drain" or "refused"
    \* ---- run_distortion: the samples read and the template written
    tplSamples,     \* the samples image_read_exif gives, in walk order
    tplExists,      \* lenses.conf was there when the run started
    tplPos,         \* the number of samples grouped so far
    lenses_exif_group,  \* lens model -> its samples, in walk order
    tplConf,        \* the sections written to lenses.conf, in order
    tplPc           \* "group", "post", "written" or "kept"

xmlVars == <<workdir, archive, confExists, confFile, tcaFiles, vigFiles, lenses, lensOrder,
             xpc, xerr, scanPos, emitPos, outExists, output>>

tcaVars == <<tcaFields, tcaText, tcaData, tcaPc>>

pgmVars == <<pgmBuf, pgmPayload, pgmResult, pgmPc>>

binVars == <<vigExists, rasterW, rasterH, samples, bins, binErr, binPc>>

poolVars == <<workflow, complex_tca, cpu_count, nImages, dirThere, sidecarOk,
              lenses_config_exists, startComplete, artifacts, job,
              lensesConf, result_futures, collected, excPending, invoked,
              postStep, wpc>>

jobVars == <<jobWorkflow, jobComplex, jobArts, jobTools, jobOut, jobReturn,
             jobPc, jobRun>>

exifVars == <<exifTags, exifTool, exifOut, exifPc>>

walkVars == <<walkWorkflow, walkComplex, walkFiles, walkPos, submitted,
              walkSidecar, walkPc>>

tplVars == <<tplSamples, tplExists, tplPos, lenses_exif_group, tplConf, tplPc>>

vars == <<xmlVars, tcaVars, pgmVars, binVars, poolVars, jobVars, exifVars,
          walkVars, tplVars>>

notXml == <<tcaVars, pgmVars, binVars, poolVars, jobVars, exifVars, walkVars, tplVars>>
notTca == <<xmlVars, pgmVars, binVars, poolVars, jobVars, exifVars, walkVars, tplVars>>
notPgm == <<xmlVars, tcaVars, binVars, poolVars, jobVars, exifVars, walkVars, tplVars>>
notBin == <<xmlVars, tcaVars, pgmVars, poolVars, jobVars, exifVars, walkVars, tplVars>>
notPool == <<xmlVars, tcaVars, pgmVars, binVars, jobVars, exifVars, walkVars, tplVars>>
notExif == <<xmlVars, tcaVars, pgmVars, binVars, poolVars, jobVars, walkVars, tplVars>>
notWalk == <<xmlVars, tcaVars, pgmVars, binVars, poolVars, jobVars, exifVars, tplVars>>
notTpl == <<xmlVars, tcaVars, pgmVars, binVars, poolVars, jobVars, exifVars,
           walkVars>>
notJob == <<xmlVars, tcaVars, pgmVars, binVars, poolVars, exifVars, walkVars, tplVars>>

----------------------------------------------------------------------------
\* Text helpers

\* The characters used, in ASCII order.
AsciiOrder == <<" ", "#", ",", "-", ".", "0", "1", "2", "3", "4", "5", "6",
                "7", "8", "9", ":", "P", "b", "f", "i", "n", "r">>

Ord(c) == CHOOSE i \in DOMAIN AsciiOrder : AsciiOrder[i] = c

Digits == {"0", "1", "2", "3", "4", "5", "6", "7", "8", "9"}

DigitVal(c) == Ord(c) - Ord("0")

RECURSIVE DigitsToNat(_)
DigitsToNat(ds) ==
    IF ds = <<>> THEN 0
    ELSE 10 * DigitsToNat(SubSeq(ds, 1, Len(ds) - 1)) + DigitVal(ds[Len(ds)])

\* Index of the first c in s, 0 when there is none.
IndexOf(s, c) ==
    IF \E i \in DOMAIN s : s[i] = c
    THEN CHOOSE i \in DOMAIN s : s[i] = c /\ \A j \in 1..(i - 1) : s[j] # c
    ELSE 0

RECURSIVE StripTrailingZeros(_)
StripTrailingZeros(ds) ==
    IF ds # <<>> /\ ds[Len(ds)] = "0"
    THEN StripTrailingZeros(SubSeq(ds, 1, Len(ds) - 1))
    ELSE ds

RECURSIVE StripLeadingZeros(_)
StripLeadingZeros(ds) ==
    IF ds # <<>> /\ ds[1] = "0" THEN StripLeadingZeros(Tail(ds)) ELSE ds

\* str.strip(): leading and trailing blanks removed.
RECURSIVE strip(_)
strip(s) ==
    IF s # <<>> /\ s[1] = " " THEN strip(Tail(s))
    ELSE IF s # <<>> /\ s[Len(s)] = " " THEN strip(SubSeq(s, 1, Len(s) - 1))
    ELSE s

\* str.split(sep): the pieces between the separators; always at least one.
RECURSIVE split(_, _)
split(s, sep) ==
    LET i == IndexOf(s, sep) IN
    IF i = 0 THEN <<s>>
    ELSE <<SubSeq(s, 1, i - 1)>> \o split(SubSeq(s, i + 1, Len(s)), sep)

\* Lexicographic order of digit sequences (a proper prefix is smaller).
RECURSIVE DigitsLexLess(_, _)
DigitsLexLess(a, b) ==
    IF b = <<>> THEN FALSE
    ELSE IF a = <<>> THEN TRUE
    ELSE IF a[1] # b[1] THEN DigitVal(a[1]) < DigitVal(b[1])
    ELSE DigitsLexLess(Tail(a), Tail(b))

\* Python's order of str values: by character code, a proper prefix first.
RECURSIVE StrLess(_, _)
StrLess(a, b) ==
    IF b = <<>> THEN FALSE
    ELSE IF a = <<>> THEN TRUE
    ELSE IF a[1] # b[1] THEN Ord(a[1]) < Ord(b[1])
    ELSE StrLess(Tail(a), Tail(b))

\* float(s) of a decimal literal or of 'inf': the value, kept exactly as
\* sign, integer part and fraction digits without trailing zeros.
float(s) ==
    IF s = <<"i", "n", "f">>
    THEN [inf |-> TRUE, neg |-> FALSE, int |-> 0, frac |-> <<>>]
    ELSE LET neg  == s # <<>> /\ s[1] = "-"
             body == IF neg THEN Tail(s) ELSE s
             dot  == IndexOf(body, ".")
             ip   == IF dot = 0 THEN body ELSE SubSeq(body, 1, dot - 1)
             fp   == IF dot = 0 THEN <<>> ELSE SubSeq(body, dot + 1, Len(body))
         IN  [inf |-> FALSE, neg |-> neg, int |-> DigitsToNat(ip),
              frac |-> StripTrailingZeros(fp)]

IsZero(x) == ~x.inf /\ x.int = 0 /\ x.frac = <<>>

MagLess(x, y) ==
    \/ x.int < y.int
    \/ x.int = y.int /\ DigitsLexLess(x.frac, y.frac)

\* x < y for two float values.
FloatLess(x, y) ==
    IF x.inf \/ y.inf THEN
        IF x.inf /\ y.inf THEN x.neg /\ ~y.neg
        ELSE IF y.inf THEN ~y.neg
        ELSE x.neg
    ELSE IF IsZero(x) /\ IsZero(y) THEN FALSE
    ELSE IF x.neg # y.neg THEN x.neg
    ELSE IF x.neg THEN MagLess(y, x)
    ELSE MagLess(x, y)

FloatLeq(x, y) == ~FloatLess(y, x)

\* sorted(keys): the order of the keys as strings.
RECURSIVE SortedAsStrings(_)
SortedAsStrings(S) ==
    IF S = {} THEN <<>>
    ELSE LET m == CHOOSE k \in S : \A o \in S : ~StrLess(o, k)
         IN  <<m>> \o SortedAsStrings(S \ {m})

\* sorted(keys, key=float): ascending by numeric value.
RECURSIVE sorted(_)
sorted(S) ==
    IF S = {} THEN <<>>
    ELSE LET m == CHOOSE k \in S : \A o \in S : ~FloatLess(float(o), float(k))
         IN  <<m>> \o sorted(S \ {m})

SeqsUpTo(S, n) == UNION {[1..k -> S] : k \in 0..n}

Range(s) == {s[i] : i \in DOMAIN s}

----------------------------------------------------------------------------
\* generate_xml: bounded inputs

\* At most this many artifact files in each of tca/exported and
\* vignetting/exported.
MaxFiles == 2

s7_0    == <<"7", ".", "0">>
s14_0   == <<"1", "4", ".", "0">>
s100_0  == <<"1", "0", "0", ".", "0">>
s4_0    == <<"4", ".", "0">>
s11_0   == <<"1", "1", ".", "0">>
s0_5    == <<"0", ".", "5">>
sInf    == <<"i", "n", "f">>
s10     == <<"1", "0">>
s1000   == <<"1", "0", "0", "0">>

\* 'distortion(<focal>mm)', the key create_lenses_config writes
DistortionKey(f) ==
    <<"d", "i", "s", "t", "o", "r", "t", "i", "o", "n", "(">> \o f
        \o <<"m", "m", ")">>

Field1 == <<"0", ".", "0">>
Field3 == <<"0", ".", "0", ",", " ", "0", ".", "0", ",", " ", "0", ".", "0">>

DistFocals == {s7_0, s100_0}
Field2 == <<"0", ".", "0", ",", " ", "0", ".", "0">>
DistFields == {Field1, Field2, Field3}
TcaFocals == {s7_0, s14_0}
LensNames == {"LensA"}
\* (focal length, aperture, distance) of the vignetting shots
VigShots == {<<s100_0, s4_0, sInf>>, <<s100_0, s4_0, s0_5>>,
             <<s100_0, s11_0, sInf>>, <<s14_0, s4_0, sInf>>}

\* The contents of a lenses.conf section.
ConfSections ==
    {[name |-> n, type |-> "normal",
      keys |-> [k \in {DistortionKey(f) : f \in D} |-> g[k]]] :
        n \in LensNames, D \in SUBSET DistFocals,
        g \in [{DistortionKey(f) : f \in DistFocals} -> DistFields]}

\* A section for a lens that no artifact is of.
OtherLensSection == [name |-> "LensB", type |-> "normal", keys |-> <<>>]

\* A .vig artifact as calculate_vignetting writes it; the fitted values of
\* the i-th file are the opaque texts <<"k1", i>> ...
VigArtifact(i, l, f, a, d) ==
    [lens |-> l, focal_length |-> f, aperture |-> a, distance |-> d,
     fields |-> [k \in {"a", "k1", "k2", "k3"} |-> <<k, i>>]]

\* A .tca artifact as tca_correct writes it.
TcaArtifact(i, l, f, c) ==
    [lens |-> l, focal_length |-> f,
     fields |-> [k \in {"complex_tca", "tca", "br", "vr", "bb", "vb"} |->
                    IF k = "complex_tca" THEN c ELSE <<k, i>>]]

VigFileLists ==
    UNION {{[i \in 1..n |-> VigArtifact(i, p[i][1], p[i][2][1], p[i][2][2], p[i][2][3])] :
              p \in [1..n -> LensNames \X VigShots]} :
           n \in 0..MaxFiles}

TcaFileLists ==
    UNION {{[i \in 1..n |-> TcaArtifact(i, p[i][1], p[i][2], c)] :
              p \in [1..n -> LensNames \X TcaFocals], c \in {"True", "False"}} :
           n \in 0..MaxFiles}

----------------------------------------------------------------------------
\* generate_xml: aggregation

\* parse_lenses_config: one tree entry per section; a key that starts with
\* 'distortion' is filed under key[11:len(key) - 3].
ParseSection(sec) ==
    [type |-> sec.type,
     distortion |-> [f \in {SubSeq(k, 12, Len(k) - 3) : k \in DOMAIN sec.keys} |->
                        sec.keys[DistortionKey(f)]],
     tca |-> <<>>,
     vignetting |-> <<>>]

parse_lenses_config(file) ==
    [n \in {file[i].name : i \in DOMAIN file} |->
        ParseSection(file[CHOOSE i \in DOMAIN file : file[i].name = n])]

\* d[k] = v on a dict modelled as a function.
DictSet(d, k, v) == [x \in (DOMAIN d) \cup {k} |-> IF x = k THEN v ELSE d[x]]

DictGet(d, k, default) == IF k \in DOMAIN d THEN d[k] ELSE default

\* A merge in which a value already in the entry is kept.
MergeKeepingOld(old, new) ==
    [k \in (DOMAIN old) \cup (DOMAIN new) |->
        IF k \in DOMAIN old THEN old[k] ELSE new[k]]

\* for key in config[lens_model]: entry[key] = config[lens_model][key]
MergeFields(old, new) ==
    [k \in (DOMAIN old) \cup (DOMAIN new) |->
        IF k \in DOMAIN new THEN new[k] ELSE old[k]]

\* One .tca file merged into the tree of its lens.
MergeTca(tree, art) ==
    LET f   == art.focal_length
        old == DictGet(tree.tca, f, <<>>)
    IN  [tree EXCEPT !.tca = DictSet(tree.tca, f, MergeFields(old, art.fields))]

\* One .vig file merged into the tree of its lens.
MergeVig(tree, art) ==
    LET f  == art.focal_length
        a  == art.aperture
        d  == art.distance
        byA == DictGet(tree.vignetting, f, <<>>)
        byD == DictGet(byA, a, <<>>)
        old == DictGet(byD, d, <<>>)
        byD2 == DictSet(byD, d, MergeFields(old, art.fields))
        byA2 == DictSet(byA, a, byD2)
    IN  [tree EXCEPT !.vignetting = DictSet(tree.vignetting, f, byA2)]

\* A run_generate_xml that opened its output before the scan of
\* vignetting/exported.
OpenBeforeVignetting(stage) ==
    IF stage = "parse" /\ tcaFiles # <<>> THEN "tca" ELSE "open"

\* Where run_generate_xml goes once the config is parsed and `done` scans
\* are over.
AfterScan(stage) ==
    IF stage = "parse" /\ tcaFiles # <<>> THEN "tca"
    ELSE IF stage \in {"parse", "tca"} /\ vigFiles # <<>> THEN "vig"
    ELSE "open"

\* lenses.conf is missing: print and return.
NoLensesConfig ==
    /\ UNCHANGED notXml
    /\ xpc = "start"
    /\ ~confExists
    /\ xpc' = "returned"
    /\ UNCHANGED <<confExists, confFile, tcaFiles, vigFiles, workdir, archive,
                   lenses, lensOrder, xerr, scanPos, emitPos, outExists, output>>

\* A scan that went on past an artifact whose lens the tree lacks.
AnyLensPasses(tree, lens_model) == TRUE

\* lenses[lens_model] does not raise KeyError.
HasSection(tree, lens_model) == lens_model \in DOMAIN tree

ParseLensesConfig ==
    /\ UNCHANGED notXml
    /\ xpc = "start"
    /\ confExists
    /\ lenses' = parse_lenses_config(confFile)
    /\ lensOrder' = [i \in DOMAIN confFile |-> confFile[i].name]
    /\ xpc' = AfterScan("parse")
    /\ UNCHANGED <<confExists, confFile, tcaFiles, vigFiles, workdir, archive, xerr, scanPos,
                   emitPos, outExists, output>>

\* One iteration of the loop over tca/exported.
ScanTcaFile ==
    /\ UNCHANGED notXml
    /\ xpc = "tca"
    /\ scanPos < Len(tcaFiles)
    /\ LET art == tcaFiles[scanPos + 1] IN
        IF HasSection(lenses, art.lens)
        THEN /\ lenses' = [lenses EXCEPT ![art.lens] = MergeTca(@, art)]
             /\ scanPos' = IF scanPos + 1 = Len(tcaFiles) THEN 0 ELSE scanPos + 1
             /\ xpc' = IF scanPos + 1 = Len(tcaFiles) THEN AfterScan("tca") ELSE xpc
             /\ xerr' = xerr
        ELSE /\ xpc' = "raised"
             /\ xerr' = "KeyError"
             /\ UNCHANGED <<lenses, scanPos>>
    /\ UNCHANGED <<confExists, confFile, tcaFiles, vigFiles, workdir, archive, lensOrder, emitPos,
                   outExists, output>>

\* One iteration of the loop over vignetting/exported.
ScanVigFile ==
    /\ UNCHANGED notXml
    /\ xpc = "vig"
    /\ scanPos < Len(vigFiles)
    /\ LET art == vigFiles[scanPos + 1] IN
        IF HasSection(lenses, art.lens)
        THEN /\ lenses' = [lenses EXCEPT ![art.lens] = MergeVig(@, art)]
             /\ scanPos' = IF scanPos + 1 = Len(vigFiles) THEN 0 ELSE scanPos + 1
             /\ xpc' = IF scanPos + 1 = Len(vigFiles) THEN AfterScan("vig") ELSE xpc
             /\ xerr' = xerr
        ELSE /\ xpc' = "raised"
             /\ xerr' = "KeyError"
             /\ UNCHANGED <<lenses, scanPos>>
    /\ UNCHANGED <<confExists, confFile, tcaFiles, vigFiles, workdir, archive, lensOrder, emitPos,
                   outExists, output>>

----------------------------------------------------------------------------
\* generate_xml: emission

Element(tag, lens, model, focal, aperture, distance, dkey, data) ==
    [tag |-> tag, lens |-> lens, model |-> model, focal |-> focal,
     aperture |-> aperture, distance |-> distance, dkey |-> dkey, data |-> data]

\* data = list(map(str.strip, field.split(',')))
DistortionData(field) ==
    LET parts == split(field, ",") IN [i \in DOMAIN parts |-> strip(parts[i])]

\* The body of the distortion loop for one focal length: the element
\* written, or the IndexError of data[1] / data[2] on a shorter list.
\* data[1] is a str whenever it exists, so the poly3 branch is never taken.
DistortionElement(lens, focal, field) ==
    LET data == DistortionData(field) IN
    IF Len(data) < 2 THEN [raised |-> TRUE, elems |-> <<>>]
    ELSE IF Len(data) < 3 THEN [raised |-> TRUE, elems |-> <<>>]
    ELSE [raised |-> FALSE,
          elems |-> <<Element("distortion", lens, "ptlens", focal, <<>>, <<>>,
                              <<>>, <<data[1], data[2], data[3]>>)>>]

\* The distortion loop over the focal lengths in `order`: what is written
\* before it ends or raises.
RECURSIVE DistortionLoop(_, _, _)
DistortionLoop(lens, dist, order) ==
    IF order = <<>> THEN [raised |-> FALSE, elems |-> <<>>]
    ELSE LET one == DistortionElement(lens, order[1], dist[order[1]]) IN
         IF one.raised THEN one
         ELSE LET rest == DistortionLoop(lens, dist, Tail(order)) IN
              [raised |-> rest.raised, elems |-> one.elems \o rest.elems]

TcaElement(lens, focal, data) ==
    IF data["complex_tca"] = "True"
    THEN Element("tca", lens, "poly3", focal, <<>>, <<>>, <<>>,
                 <<data["br"], data["vr"], data["bb"], data["vb"]>>)
    ELSE Element("tca", lens, "poly3", focal, <<>>, <<>>, <<>>,
                 <<data["vr"], data["vb"]>>)

RECURSIVE TcaLoop(_, _, _)
TcaLoop(lens, tca, order) ==
    IF order = <<>> THEN <<>>
    ELSE <<TcaElement(lens, order[1], tca[order[1]])>>
            \o TcaLoop(lens, tca, Tail(order))

\* if distance == 'inf': distance = '1000'
SerializedDistance(dkey) == IF dkey = sInf THEN s1000 ELSE dkey

\* The emission without the two-distance rule.
EmittedDistancesOnce(distances, dkey) == <<SerializedDistance(dkey)>>

\* The distances one recorded distance is written at: itself, or 10 and
\* 1000 when it is the only one of its group and serializes to 1000.
EmittedDistances(distances, dkey) ==
    LET distance == SerializedDistance(dkey) IN
    IF Cardinality(distances) = 1 /\ distance = s1000
    THEN <<s10, s1000>>
    ELSE <<distance>>

VignettingElements(lens, focal, aperture, distances, dkey, data) ==
    LET ds == EmittedDistances(distances, dkey) IN
    [i \in DOMAIN ds |->
        Element("vignetting", lens, "pa", focal, aperture, ds[i], dkey,
                <<data["k1"], data["k2"], data["k3"]>>)]

RECURSIVE DistanceLoop(_, _, _, _, _)
DistanceLoop(lens, focal, aperture, byD, order) ==
    IF order = <<>> THEN <<>>
    ELSE VignettingElements(lens, focal, aperture, DOMAIN byD, order[1],
                            byD[order[1]])
            \o DistanceLoop(lens, focal, aperture, byD, Tail(order))

RECURSIVE ApertureLoop(_, _, _, _)
ApertureLoop(lens, focal, byA, order) ==
    IF order = <<>> THEN <<>>
    ELSE DistanceLoop(lens, focal, order[1], byA[order[1]],
                      sorted(DOMAIN byA[order[1]]))
            \o ApertureLoop(lens, focal, byA, Tail(order))

RECURSIVE VignettingLoop(_, _, _)
VignettingLoop(lens, vig, order) ==
    IF order = <<>> THEN <<>>
    ELSE ApertureLoop(lens, order[1], vig[order[1]], sorted(DOMAIN vig[order[1]]))
            \o VignettingLoop(lens, vig, Tail(order))

\* A file name: its stem, the time stamp put after it, its extension.
FileName(stem, stamp, ext) == [stem |-> stem, stamp |-> stamp, ext |-> ext]

\* first_key + strftime('_%d-%m-%Y_%H:%M:%S') + '.xml', first_key being a
\* lens name (here without blanks)
OutputName(first_key) == FileName(first_key, "_dd-mm-YYYY_HH:MM:SS", ".xml")

LensfunXml == FileName("lensfun", "", ".xml")

TcaPdf == FileName("tca", "", ".pdf")

VignettingPdf == FileName("vignetting", "", ".pdf")

PreviewJpg == FileName("vignetting/exported/img", "", ".jpg")

\* tar_files: the three fixed names and the previews found
tar_files == {LensfunXml, TcaPdf, VignettingPdf, PreviewJpg}

\* first_key = list(lenses.keys())[0]; open(filename, 'w')
OpenOutput ==
    /\ UNCHANGED notXml
    /\ xpc = "open"
    /\ IF lensOrder = <<>>
       THEN /\ xpc' = "raised"
            /\ xerr' = "IndexError"
            /\ UNCHANGED <<outExists, output, emitPos, workdir>>
       ELSE /\ outExists' = TRUE
            /\ workdir' = workdir \cup {OutputName(lensOrder[1])}
            /\ output' = <<>>
            /\ emitPos' = 1
            /\ xpc' = "distortion"
            /\ xerr' = xerr
    /\ UNCHANGED <<confExists, confFile, tcaFiles, vigFiles, archive, lenses,
                   lensOrder, scanPos>>

\* The lens header and the distortion entries of the current lens.
EmitDistortion ==
    /\ UNCHANGED notXml
    /\ xpc = "distortion"
    /\ LET lens == lensOrder[emitPos]
           dist == lenses[lens].distortion
           got  == DistortionLoop(lens, dist, sorted(DOMAIN dist))
           head == <<Element("lens", lens, <<>>, <<>>, <<>>, <<>>, <<>>, <<>>)>>
       IN  /\ output' = output \o head \o got.elems
           /\ xpc' = IF got.raised THEN "raised" ELSE "tcaout"
           /\ xerr' = IF got.raised THEN "IndexError" ELSE xerr
    /\ UNCHANGED <<confExists, confFile, tcaFiles, vigFiles, workdir, archive, lenses, lensOrder,
                   scanPos, emitPos, outExists>>

\* The tca entries of the current lens.
EmitTca ==
    /\ UNCHANGED notXml
    /\ xpc = "tcaout"
    /\ LET lens == lensOrder[emitPos]
           tca  == lenses[lens].tca
       IN  output' = output \o TcaLoop(lens, tca, sorted(DOMAIN tca))
    /\ xpc' = "vigout"
    /\ UNCHANGED <<confExists, confFile, tcaFiles, vigFiles, workdir, archive, lenses, lensOrder,
                   xerr, scanPos, emitPos, outExists>>

\* The vignetting entries of the current lens; then the next lens, or the
\* end of the file.
EmitVignetting ==
    /\ UNCHANGED notXml
    /\ xpc = "vigout"
    /\ LET lens == lensOrder[emitPos]
           vig  == lenses[lens].vignetting
       IN  output' = output \o VignettingLoop(lens, vig, sorted(DOMAIN vig))
    /\ IF emitPos < Len(lensOrder)
       THEN emitPos' = emitPos + 1 /\ xpc' = "distortion"
       ELSE emitPos' = emitPos /\ xpc' = "done"
    /\ UNCHANGED <<confExists, confFile, tcaFiles, vigFiles, workdir, archive, lenses, lensOrder,
                   xerr, scanPos, outExists>>

\* run_ship, run after run_generate_xml has ended well: without a file
\* lensfun.xml it prints and returns; else it packs those of tar_files
\* that exist.
Ship ==
    /\ UNCHANGED notXml
    /\ xpc = "done"
    /\ IF LensfunXml \notin workdir
       THEN xpc' = "not_shipped" /\ UNCHANGED archive
       ELSE xpc' = "shipped" /\ archive' = tar_files \cap workdir
    /\ UNCHANGED <<confExists, confFile, tcaFiles, vigFiles, workdir, lenses,
                   lensOrder, xerr, scanPos, emitPos, outExists, output>>

----------------------------------------------------------------------------
\* tca_correct: the parse of the detector's output

\* The pattern of re.match, item by item: a literal text, or one or more
\* characters of a class, captured under a name or not.
Lit(text) == [kind |-> "lit", text |-> text, cls |-> {}, name |-> ""]
Plus(cls, name) == [kind |-> "plus", text |-> <<>>, cls |-> cls, name |-> name]

ZeroClass == {".", "0"}
NumberClass == {"-", "."} \cup Digits

\* The pattern with the first and third field of each group captured in
\* place of the second and fourth.
TcaPatternShifted ==
    <<Lit(<<"-", "r", " ">>), Plus(NumberClass, "br"), Lit(<<":">>),
      Plus(ZeroClass, ""), Lit(<<":">>), Plus(NumberClass, "vr"), Lit(<<":">>),
      Plus(ZeroClass, ""),
      Lit(<<" ", "-", "b", " ">>), Plus(NumberClass, "bb"), Lit(<<":">>),
      Plus(ZeroClass, ""), Lit(<<":">>), Plus(NumberClass, "vb"), Lit(<<":">>),
      Plus(ZeroClass, "")>>

\* -r [.0]+:(?P<br>[-.0-9]+):[.0]+:(?P<vr>[-.0-9]+) -b [.0]+:(?P<bb>[-.0-9]+):[.0]+:(?P<vb>[-.0-9]+)
TcaPattern ==
    <<Lit(<<"-", "r", " ">>), Plus(ZeroClass, ""), Lit(<<":">>),
      Plus(NumberClass, "br"), Lit(<<":">>), Plus(ZeroClass, ""), Lit(<<":">>),
      Plus(NumberClass, "vr"),
      Lit(<<" ", "-", "b", " ">>), Plus(ZeroClass, ""), Lit(<<":">>),
      Plus(NumberClass, "bb"), Lit(<<":">>), Plus(ZeroClass, ""), Lit(<<":">>),
      Plus(NumberClass, "vb")>>

\* The length of the longest run of characters of cls in text from pos.
RECURSIVE RunLength(_, _, _)
RunLength(text, pos, cls) ==
    IF pos <= Len(text) /\ text[pos] \in cls
    THEN 1 + RunLength(text, pos + 1, cls)
    ELSE 0

\* The match of the pattern items from position pos of text. A class item
\* is greedy; no item that follows one starts with a character of its
\* class, so the longest run is the only way to match.
RECURSIVE MatchFrom(_, _, _)
MatchFrom(text, pos, pattern) ==
    IF pattern = <<>> THEN [matched |-> TRUE, groups |-> <<>>]
    ELSE LET item == pattern[1] IN
         IF item.kind = "lit" THEN
            IF /\ pos + Len(item.text) - 1 <= Len(text)
               /\ SubSeq(text, pos, pos + Len(item.text) - 1) = item.text
            THEN MatchFrom(text, pos + Len(item.text), Tail(pattern))
            ELSE [matched |-> FALSE, groups |-> <<>>]
         ELSE LET n == RunLength(text, pos, item.cls) IN
              IF n = 0 THEN [matched |-> FALSE, groups |-> <<>>]
              ELSE LET rest == MatchFrom(text, pos + n, Tail(pattern)) IN
                   IF ~rest.matched THEN rest
                   ELSE IF item.name = "" THEN rest
                   ELSE [matched |-> TRUE,
                         groups |-> DictSet(rest.groups, item.name,
                                            SubSeq(text, pos, pos + n - 1))]

\* re.match(pattern, output): anchored at the start of the text only.
tca_data_match(text) == MatchFrom(text, 1, TcaPattern)

\* The text the detector prints for its eight fields.
TcaLine(f) ==
    <<"-", "r", " ">> \o f[1] \o <<":">> \o f[2] \o <<":">> \o f[3] \o <<":">>
        \o f[4] \o <<" ", "-", "b", " ">> \o f[5] \o <<":">> \o f[6]
        \o <<":">> \o f[7] \o <<":">> \o f[8]

\* Bounded inputs: the fields the extractor ignores and the ones it reads.
IgnoredFields == {<<"0", ".", "0">>, <<"1", ".", "5">>, <<"-", "0", ".", "5">>}
ReadFields == {<<"-", "0", ".", "0", "0", "2">>, <<"0", ".", "0", "0", "1">>,
               <<"0", ".", "0", "0", "3">>, <<"-", "0", ".", "0", "0", "1">>}
TcaFieldLists ==
    {f \in [1..8 -> IgnoredFields \cup ReadFields] :
        /\ \A i \in {1, 3, 5, 7} : f[i] \in IgnoredFields
        /\ \A i \in {2, 4, 6, 8} : f[i] \in ReadFields}

TcaStart ==
    /\ tcaFields \in TcaFieldLists
    /\ tcaText = TcaLine(tcaFields)
    /\ tcaData = [matched |-> FALSE, groups |-> <<>>]
    /\ tcaPc = "start"

TcaIdle ==
    /\ tcaFields = <<>>
    /\ tcaText = <<>>
    /\ tcaData = [matched |-> FALSE, groups |-> <<>>]
    /\ tcaPc = "idle"

\* tca_correct from the detector's output to tca_data.
ParseTcaOutput ==
    /\ UNCHANGED notTca
    /\ tcaPc = "start"
    /\ tcaData' = tca_data_match(tcaText)
    /\ tcaPc' = "done"
    /\ UNCHANGED <<tcaFields, tcaText>>

----------------------------------------------------------------------------
\* load_pgm: the header parse and the choice of the sample type

Whitespace == {" ", "\n"}

\* The end of (?:\s*#.*[\r\n])* from pos: each round skips blanks, takes a
\* '#' and the rest of its line with the line end; a round that cannot be
\* completed is not taken.
RECURSIVE SkipComments(_, _)
SkipComments(text, pos) ==
    LET p == pos + RunLength(text, pos, Whitespace) IN
    IF p <= Len(text) /\ text[p] = "#"
    THEN LET n == RunLength(text, p, {c \in Range(text) : c # "\n"}) IN
         IF p + n <= Len(text) THEN SkipComments(text, p + n + 1) ELSE pos
    ELSE pos

\* The end of (?:\s*#.*[\r\n]\s)* from pos.
RECURSIVE SkipCommentsSpaced(_, _)
SkipCommentsSpaced(text, pos) ==
    LET p == pos + RunLength(text, pos, Whitespace) IN
    IF p <= Len(text) /\ text[p] = "#"
    THEN LET n == RunLength(text, p, {c \in Range(text) : c # "\n"}) IN
         IF p + n + 1 <= Len(text) /\ text[p + n + 1] \in Whitespace
         THEN SkipCommentsSpaced(text, p + n + 2)
         ELSE pos
    ELSE pos

\* (\d+)\s from pos: the digits and the position after the blank.
NumberField(text, pos) ==
    LET n == RunLength(text, pos, Digits) IN
    IF n > 0 /\ pos + n <= Len(text) /\ text[pos + n] \in Whitespace
    THEN [matched |-> TRUE, digits |-> SubSeq(text, pos, pos + n - 1),
          next |-> pos + n + 1]
    ELSE [matched |-> FALSE, digits |-> <<>>, next |-> pos]

NoHeader == [matched |-> FALSE, width |-> <<>>, height |-> <<>>,
             maxval |-> <<>>, length |-> 0]

\* re.search of the header pattern, which is anchored at the start of the
\* buffer: P5, a blank, comments, then width, height and maxval, each
\* followed by a blank and comments.
HeaderSearch(buf) ==
    IF ~(Len(buf) >= 3 /\ buf[1] = "P" /\ buf[2] = "5" /\ buf[3] \in Whitespace)
    THEN NoHeader
    ELSE LET w == NumberField(buf, SkipComments(buf, 4)) IN
         IF ~w.matched THEN NoHeader
         ELSE LET h == NumberField(buf, SkipComments(buf, w.next)) IN
              IF ~h.matched THEN NoHeader
              ELSE LET m == NumberField(buf, SkipComments(buf, h.next)) IN
                   IF ~m.matched THEN NoHeader
                   ELSE [matched |-> TRUE, width |-> w.digits,
                         height |-> h.digits, maxval |-> m.digits,
                         length |-> SkipCommentsSpaced(buf, m.next) - 1]

\* int(a) == int(b) for two texts of digits.
SameNat(a, b) == StripLeadingZeros(a) = StripLeadingZeros(b)

Text255 == <<"2", "5", "5">>
Text65535 == <<"6", "5", "5", "3", "5">>
Text4294967295 == <<"4", "2", "9", "4", "9", "6", "7", "2", "9", "5">>

NoType == [known |-> FALSE, dtype |-> "none", itemsize |-> 0]

\* if maxval == 255 ... elif maxval == 65535 ... elif maxval == 4294967295
SampleType(maxval) ==
    IF SameNat(maxval, Text255)
    THEN [known |-> TRUE, dtype |-> "uint8", itemsize |-> 1]
    ELSE IF SameNat(maxval, Text65535)
    THEN [known |-> TRUE, dtype |-> "uint16", itemsize |-> 2]
    ELSE IF SameNat(maxval, Text4294967295)
    THEN [known |-> TRUE, dtype |-> "float32", itemsize |-> 4]
    ELSE NoType

PgmError(why) ==
    [status |-> "ValueError", why |-> why, width |-> 0, height |-> 0,
     dtype |-> "none", itemsize |-> 0, byteorder |-> "none"]

\* load_pgm: the header parse, the sample type, and np.frombuffer of
\* width * height samples from the end of the header.
load_pgm(buf, payload) ==
    LET hd == HeaderSearch(buf) IN
    IF ~hd.matched THEN PgmError("Not a NetPGM file")
    ELSE LET width == DigitsToNat(hd.width)
             height == DigitsToNat(hd.height)
             dt == SampleType(hd.maxval)
         IN  IF ~dt.known THEN PgmError("Not a NetPGM file")
             ELSE IF Len(buf) - hd.length + payload < width * height * dt.itemsize
             THEN PgmError("buffer is smaller than requested size")
             ELSE [status |-> "ok", why |-> "", width |-> width,
                   height |-> height, dtype |-> dt.dtype,
                   itemsize |-> dt.itemsize, byteorder |-> "B"]

\* Bounded inputs: header texts and payload sizes.
PgmMagics == {<<"P", "5">>, <<"P", "2">>}
PgmGaps == {<<"\n">>, <<"\n", "\n">>, <<"\n", "#", " ", "\n">>}
PgmMaxvals == {<<"1">>, <<"1", "0", "0">>, Text255, <<"0", "2", "5", "5">>,
               <<"2", "5", "6">>, <<"1", "0", "2", "3">>, Text65535,
               <<"6", "5", "5", "3", "6">>, Text4294967295,
               <<"4", "2", "9", "4", "9", "6", "7", "2", "9", "6">>}
PgmWidths == {<<"2">>, <<"3">>}
PgmPayloads == {4, 12, 24}

PgmHeader(magic, gap, width, maxval) ==
    magic \o gap \o width \o <<" ", "2", "\n">> \o maxval \o <<"\n">>

PgmStart ==
    /\ pgmBuf \in {PgmHeader(g, s, w, m) :
                      g \in PgmMagics, s \in PgmGaps, w \in PgmWidths,
                      m \in PgmMaxvals}
    /\ pgmPayload \in PgmPayloads
    /\ pgmResult = PgmError("")
    /\ pgmPc = "start"

PgmIdle ==
    /\ pgmBuf = <<>>
    /\ pgmPayload = 0
    /\ pgmResult = PgmError("")
    /\ pgmPc = "idle"

LoadPgm ==
    /\ UNCHANGED notPgm
    /\ pgmPc = "start"
    /\ pgmResult' = load_pgm(pgmBuf, pgmPayload)
    /\ pgmPc' = "done"
    /\ UNCHANGED <<pgmBuf, pgmPayload>>

----------------------------------------------------------------------------
\* calculate_vignetting: the retained samples and their radial bins
\*
\* A radius is hypot(dx, dy) / half_diagonal.  It is kept here as the pair
\* of integers d2 = dx*dx + dy*dy and h2 = half_diagonal squared, so that
\* radius <= 1 and round(radius * n) are decided by integer comparisons.

MaxDim == 6

number_of_bins == 16

maximal_radius == 1

Square(n) == n * n

\* The half diagonal as it would be from the centre to the last pixel.
half_diagonal_to_last2(width, height) ==
    Square((width - 1) \div 2) + Square((height - 1) \div 2)

\* math.hypot(width // 2, height // 2), squared
half_diagonal2(width, height) == Square(width \div 2) + Square(height \div 2)

\* math.hypot(x - width // 2, y - height // 2), squared
Radius2(x, y, width, height) ==
    Square(x - width \div 2) + Square(y - height \div 2)

\* round(sqrt(d2 / h2) * n), a tie going to the even integer
RoundScaled(d2, h2, n) ==
    LET Reach(k) == k = 0 \/ 4 * n * n * d2 >= Square(2 * k - 1) * h2
        kmax == CHOOSE k \in 0..(n + 1) : Reach(k) /\ ~Reach(k + 1)
        tie == kmax > 0 /\ 4 * n * n * d2 = Square(2 * kmax - 1) * h2
    IN  IF tie /\ kmax % 2 = 1 THEN kmax - 1 ELSE kmax

\* The bin index as it would be with number_of_bins in the place of
\* number_of_bins - 1.
bin_index_all_bins(d2, h2) == RoundScaled(d2, h2 * Square(maximal_radius), number_of_bins)

\* int(round(radius / maximal_radius * (number_of_bins - 1)))
bin_index(d2, h2) == RoundScaled(d2, h2 * Square(maximal_radius), number_of_bins - 1)

\* The two nested loops over y and x: the samples with radius <=
\* maximal_radius, in scan order.
RECURSIVE Retained(_, _, _)
Retained(width, height, n) ==
    IF n = 0 THEN <<>>
    ELSE LET x == (n - 1) % width
             y == (n - 1) \div width
             d2 == Radius2(x, y, width, height)
             before == Retained(width, height, n - 1)
         IN  IF d2 <= Square(maximal_radius) * half_diagonal2(width, height)
             THEN Append(before, [x |-> x, y |-> y, d2 |-> d2])
             ELSE before

EmptyBins == [k \in 0..(number_of_bins - 1) |-> <<>>]

\* The loop bins[bin_index].append(intensity) from sample i on; an index
\* outside the list of bins ends it with IndexError.
RECURSIVE FillBins(_, _, _, _)
FillBins(bs, smp, h2, i) ==
    IF i > Len(smp) THEN [ok |-> TRUE, bins |-> bs]
    ELSE LET k == bin_index(smp[i].d2, h2) IN
         IF k \notin DOMAIN bs THEN [ok |-> FALSE, bins |-> bs]
         ELSE FillBins([bs EXCEPT ![k] = Append(@, i)], smp, h2, i + 1)

BinStart ==
    /\ rasterW \in 1..MaxDim
    /\ rasterH \in 1..MaxDim
    /\ vigExists \in BOOLEAN
    /\ samples = <<>>
    /\ bins = EmptyBins
    /\ binErr = "none"
    /\ binPc = "start"

BinIdle ==
    /\ rasterW = 0
    /\ rasterH = 0
    /\ vigExists = FALSE
    /\ samples = <<>>
    /\ bins = EmptyBins
    /\ binErr = "none"
    /\ binPc = "idle"

\* if os.path.exists(vig_filename): return
VigAlreadyThere ==
    /\ UNCHANGED notBin
    /\ binPc = "start"
    /\ vigExists
    /\ binPc' = "returned"
    /\ UNCHANGED <<rasterW, rasterH, vigExists, samples, bins, binErr>>

\* The half diagonal and the loop that keeps the samples within the
\* maximal radius; a half diagonal of zero ends it with ZeroDivisionError.
CollectSamples ==
    /\ UNCHANGED notBin
    /\ binPc = "start"
    /\ ~vigExists
    /\ IF half_diagonal2(rasterW, rasterH) = 0
       THEN /\ binPc' = "raised"
            /\ binErr' = "ZeroDivisionError"
            /\ UNCHANGED samples
       ELSE /\ binPc' = "collected"
            /\ samples' = Retained(rasterW, rasterH, rasterW * rasterH)
            /\ UNCHANGED binErr
    /\ UNCHANGED <<rasterW, rasterH, vigExists, bins>>

\* The sixteen bins and the loop that fills them.
BinSamples ==
    /\ UNCHANGED notBin
    /\ binPc = "collected"
    /\ LET r == FillBins(EmptyBins, samples, half_diagonal2(rasterW, rasterH), 1) IN
       /\ bins' = r.bins
       /\ binPc' = IF r.ok THEN "binned" ELSE "raised"
       /\ binErr' = IF r.ok THEN "none" ELSE "IndexError"
    /\ UNCHANGED <<rasterW, rasterH, vigExists, samples>>

----------------------------------------------------------------------------
\* image_read_exif: the sample made from the tags of one file
\*
\* A tag value is a tuple of words; <<>> stands for an absent tag and for
\* Python's None.

None == <<>>

has_exif_tag(data, tag) == data[tag] # None

\* `sub in text`, for texts that are tuples of words
Contains(text, sub) ==
    \E i \in 0..(Len(text) - Len(sub)) :
        \A k \in 1..Len(sub) : text[i + k] = sub[k]

\* The lens model: Exif.Photo.LensModel when it is there; else each of the
\* five maker tags that is there overwrites the value of the ones before.
LensModelOf(data) ==
    IF has_exif_tag(data, "Exif.Photo.LensModel")
    THEN data["Exif.Photo.LensModel"]
    ELSE LET m1 == IF has_exif_tag(data, "Exif.NikonLd3.LensIDNumber")
                   THEN data["Exif.NikonLd3.LensIDNumber"] ELSE None
             m2 == IF has_exif_tag(data, "Exif.Panasonic.LensType")
                   THEN data["Exif.Panasonic.LensType"] ELSE m1
             m3 == IF has_exif_tag(data, "Exif.Sony1.LensID")
                   THEN data["Exif.Sony1.LensID"] ELSE m2
             m4 == IF has_exif_tag(data, "Exif.Minolta.LensID")
                   THEN data["Exif.Minolta.LensID"] ELSE m3
             m5 == IF has_exif_tag(data, "Exif.OlympusEq.LensType")
                   THEN data["Exif.OlympusEq.LensType"] ELSE m4
         IN  IF m5 = None THEN <<"Standard">> ELSE m5

\* The maker read from the human value of one tag.
MakerFrom(value) ==
    IF value = <<"None">> THEN <<"[unknown}">>
    ELSE IF Contains(value, <<"Olympus", "OM", "System">>)
    THEN <<"Olympus", "Zuiko", "OM", "System">>
    ELSE IF Contains(value, <<"Olympus", "Zuiko", "Digital">>)
    THEN <<"Olympus", "Zuiko", "Digital">>
    ELSE value

\* The loop over Exif.Photo.LensModel and Exif.OlympusEq.LensType: the
\* first tag that is there gives the maker.
LensMakerOf(data) ==
    IF has_exif_tag(data, "Exif.Photo.LensModel")
    THEN MakerFrom(data["Exif.Photo.LensModel"])
    ELSE IF has_exif_tag(data, "Exif.OlympusEq.LensType")
    THEN MakerFrom(data["Exif.OlympusEq.LensType"])
    ELSE <<"[unknown]">>

MountOf(lens_maker) ==
    IF lens_maker = <<"[unknown}">> THEN <<"[unknown]">>
    ELSE IF lens_maker = <<"Olympus", "Zuiko", "OM", "System">> THEN <<"Olympus", "OM">>
    ELSE IF lens_maker = <<"Olympus", "Zuiko", "Digital">> THEN <<"4/3", "System">>
    ELSE None

NoSample(status) ==
    [status |-> status, lens_model |-> None, focal_length |-> None,
     aperture |-> None, aspect_ratio |-> None, crop_factor |-> None,
     lens_maker |-> None, mount |-> None]

\* The whole function.  subprocess.run raises FileNotFoundError when
\* exiftool is not there; json.loads raises on the '-' that exiftool -T
\* prints for a tag it does not have; a non-zero exit gives 0.0.
exif_data(data, tool) ==
    IF tool = "missing" THEN NoSample("FileNotFoundError")
    ELSE IF tool = "dash" THEN NoSample("JSONDecodeError")
    ELSE [status |-> "ok",
          lens_model |-> LensModelOf(data),
          focal_length |-> IF has_exif_tag(data, "Exif.Photo.FocalLength")
                           THEN data["Exif.Photo.FocalLength"] ELSE <<"0.0">>,
          aperture |-> IF has_exif_tag(data, "Exif.Photo.FNumber")
                       THEN data["Exif.Photo.FNumber"] ELSE <<"0.0">>,
          aspect_ratio |-> data["Exif.OlympusIp.AspectRatio"],
          crop_factor |-> IF tool = "fail" THEN <<"0.0">> ELSE <<"2.0">>,
          lens_maker |-> LensMakerOf(data),
          mount |-> MountOf(LensMakerOf(data))]

\* Bounded inputs: the values each tag can have.
LensModelValues ==
    {None, <<"None">>, <<"FE", "16-35mm">>,
     <<"Olympus", "Zuiko", "Digital", "14-42mm">>,
     <<"Olympus", "OM", "System", "50mm">>}

OtherTags == {"Exif.NikonLd3.LensIDNumber", "Exif.Panasonic.LensType",
              "Exif.Sony1.LensID", "Exif.Minolta.LensID"}

ExifTagSets ==
    {[t \in {"Exif.Photo.LensModel", "Exif.OlympusEq.LensType",
             "Exif.Photo.FocalLength", "Exif.Photo.FNumber",
             "Exif.OlympusIp.AspectRatio"} \cup OtherTags |->
        IF t = "Exif.Photo.LensModel" THEN lm
        ELSE IF t = "Exif.OlympusEq.LensType" THEN ol
        ELSE IF t \in OtherTags THEN (IF t \in others THEN <<t>> ELSE None)
        ELSE IF ~basic THEN None
        ELSE IF t = "Exif.Photo.FocalLength" THEN <<"50.0">>
        ELSE IF t = "Exif.Photo.FNumber" THEN <<"8.0">>
        ELSE <<"4:3">>] :
      lm \in LensModelValues,
      ol \in {None, <<"None">>, <<"Olympus", "Zuiko", "Digital", "14-42mm">>},
      others \in SUBSET OtherTags,
      basic \in BOOLEAN}

ExifStart ==
    /\ exifTags \in ExifTagSets
    /\ exifTool \in {"ok", "dash", "fail", "missing"}
    /\ exifOut = NoSample("none")
    /\ exifPc = "start"

ExifIdle ==
    /\ exifTags = <<>>
    /\ exifTool = "none"
    /\ exifOut = NoSample("none")
    /\ exifPc = "idle"

ReadExif ==
    /\ UNCHANGED notExif
    /\ exifPc = "start"
    /\ exifOut' = exif_data(exifTags, exifTool)
    /\ exifPc' = "done"
    /\ UNCHANGED <<exifTags, exifTool>>

----------------------------------------------------------------------------
\* The three workflows: the per-image jobs

Tools == {"exiftool", "darktable-cli", "tca_correct", "convert", "gnuplot"}

\* What a tool does when a job runs it: "ok"; "fail", a non-zero exit;
\* "missing", the executable is not found; "garbage", tca_correct prints
\* something that is not a TCA line.
Outcomes == {"ok", "fail", "missing", "garbage"}

\* The tool behaviours a job can meet: at most one tool misbehaves.
Behaviours ==
    {b \in [Tools -> Outcomes] :
        /\ Cardinality({t \in Tools : b[t] # "ok"}) <= 1
        /\ \A t \in Tools : b[t] = "garbage" => t = "tca_correct"}

\* The progress of one job: the artifacts of its file, the tools it has
\* run, and whether an exception or a return has ended it.
JobState(arts) ==
    [arts |-> arts, invoked |-> {}, raised |-> FALSE, stop |-> FALSE,
     printed |-> {}, notFound |-> {}]

Ran(s, tool) == [s EXCEPT !.invoked = @ \cup {tool}]

\* The executable of a tool is not there; msg is what the handler of OSError
\* prints, "" where there is no handler.
NotFound(s, tool, msg) ==
    [s EXCEPT !.notFound = @ \cup {tool},
              !.printed = IF msg = "" THEN @ ELSE @ \cup {msg}]

Raise(s) == [s EXCEPT !.raised = TRUE, !.stop = TRUE]

\* The test as it would be if a step were redone whatever exists.
AlwaysRun(arts, out) == TRUE

\* if not os.path.exists(output_file)
NeedsRun(arts, out) == out \notin arts

\* image_read_exif: the crop factor is read with exiftool on every call; a
\* non-zero exit gives crop_factor 0.0, a missing executable makes
\* subprocess.run raise.
image_read_exif(s, b) ==
    IF s.stop THEN s
    ELSE IF b["exiftool"] = "missing" THEN Raise(NotFound(s, "exiftool", ""))
    ELSE Ran(s, "exiftool")

\* darktable-cli writing out: CalledProcessError is raised again, OSError
\* is printed.
Darktable(s, b, out) ==
    IF s.stop \/ ~NeedsRun(s.arts, out) THEN s
    ELSE IF b["darktable-cli"] = "missing"
    THEN NotFound(s, "darktable-cli", "Could not find darktable-cli")
    ELSE IF b["darktable-cli"] = "fail" THEN Raise(Ran(s, "darktable-cli"))
    ELSE [Ran(s, "darktable-cli") EXCEPT !.arts = @ \cup {out}]

convert_raw_for_distortion(s, b) == Darktable(s, b, "tif")

convert_raw_for_tca(s, b) == Darktable(s, b, "ppm")

convert_raw_for_vignetting(s, b, out) == Darktable(s, b, out)

\* convert from the .ppm to the .pgm; it fails when the .ppm is not there.
convert_ppm_for_vignetting(s, b) ==
    IF s.stop \/ ~NeedsRun(s.arts, "pgm") THEN s
    ELSE IF b["convert"] = "missing"
    THEN NotFound(s, "convert", "Could not find convert")
    ELSE IF b["convert"] = "fail" \/ "ppm" \notin s.arts THEN Raise(Ran(s, "convert"))
    ELSE [Ran(s, "convert") EXCEPT !.arts = @ \cup {"pgm"}]

\* plot_pdf: shutil.which gives None for a missing gnuplot and check_call
\* then raises TypeError; CalledProcessError is raised again.
plot_pdf(s, b) ==
    IF s.stop THEN s
    ELSE IF b["gnuplot"] = "missing" THEN Raise(NotFound(s, "gnuplot", ""))
    ELSE IF b["gnuplot"] = "fail" THEN Raise(Ran(s, "gnuplot"))
    ELSE [Ran(s, "gnuplot") EXCEPT !.arts = @ \cup {"pdf"}]

\* tca_correct: nothing when the .tca is there; else the detector is run,
\* its output matched, the .tca written and, with complex_tca, plotted.
tca_correct(s, b, complex) ==
    IF s.stop \/ ~NeedsRun(s.arts, "tca") THEN s
    ELSE IF b["tca_correct"] = "missing"
    THEN [NotFound(s, "tca_correct", "Could not find tca_correct") EXCEPT !.stop = TRUE]
    ELSE IF b["tca_correct"] = "fail" \/ "ppm" \notin s.arts
    THEN Raise(Ran(s, "tca_correct"))
    ELSE IF b["tca_correct"] = "garbage"
    THEN [Ran(s, "tca_correct") EXCEPT
            !.stop = TRUE,
            !.printed = @ \cup {"Could not find tca correction data"}]
    ELSE LET t == [Ran(s, "tca_correct") EXCEPT !.arts = @ \cup {"tca"}] IN
         IF complex THEN plot_pdf(t, b) ELSE t

\* calculate_vignetting: nothing when the .vig is there; else the .pgm is
\* loaded (open raises when it is not there), the .vig written and plotted.
calculate_vignetting(s, b) ==
    IF s.stop \/ ~NeedsRun(s.arts, "vig") THEN s
    ELSE IF "pgm" \notin s.arts THEN Raise(s)
    ELSE plot_pdf([s EXCEPT !.arts = @ \cup {"vig"}], b)

create_distortion_correction(arts, b) ==
    convert_raw_for_distortion(JobState(arts), b)

create_tca_correction(arts, b, complex) ==
    tca_correct(convert_raw_for_tca(image_read_exif(JobState(arts), b), b), b, complex)

create_vignetting_correction(arts, b) ==
    LET s1 == image_read_exif(JobState(arts), b)
        s2 == convert_raw_for_vignetting(s1, b, "ppm")
        s3 == convert_ppm_for_vignetting(s2, b)
        s4 == calculate_vignetting(s3, b)
    IN  convert_raw_for_vignetting(s4, b, "jpg")

JobBody(wf, complex, arts, b) ==
    IF wf = "distortion" THEN create_distortion_correction(arts, b)
    ELSE IF wf = "tca" THEN create_tca_correction(arts, b, complex)
    ELSE create_vignetting_correction(arts, b)

\* Every artifact a job of the workflow leaves for its file.
AllArtifacts(wf, complex) ==
    IF wf = "distortion" THEN {"tif"}
    ELSE IF wf = "tca" THEN {"ppm", "tca"} \cup (IF complex THEN {"pdf"} ELSE {})
    ELSE {"ppm", "pgm", "vig", "pdf", "jpg"}

----------------------------------------------------------------------------
\* One job run on its own: what it finds, what it leaves and returns

Workflows == {"distortion", "tca", "vignetting"}

\* Each create_..._correction ends with `return True`; an exception that
\* leaves it is stored by the executor.
JobReturn(r) == IF r.raised THEN "exception" ELSE "True"

JobStart ==
    /\ jobWorkflow \in Workflows
    /\ jobComplex \in BOOLEAN
    /\ jobComplex => jobWorkflow = "tca"
    /\ jobArts \in SUBSET AllArtifacts(jobWorkflow, jobComplex)
    /\ jobTools \in Behaviours
    /\ jobOut = JobState(jobArts)
    /\ jobReturn = "none"
    /\ jobPc = "start"
    /\ jobRun = 1

JobIdle ==
    /\ jobWorkflow = "none"
    /\ jobComplex = FALSE
    /\ jobArts = {}
    /\ jobTools = <<>>
    /\ jobOut = JobState({})
    /\ jobReturn = "none"
    /\ jobPc = "idle"
    /\ jobRun = 0

\* The body of the job, from its first line to its return or exception.
RunJob ==
    /\ UNCHANGED notJob
    /\ jobPc = "start"
    /\ jobOut' = JobBody(jobWorkflow, jobComplex, jobArts, jobTools)
    /\ jobReturn' = JobReturn(jobOut')
    /\ jobPc' = "done"
    /\ UNCHANGED <<jobWorkflow, jobComplex, jobArts, jobTools, jobRun>>

\* The workflow is invoked again, every tool now working: the job of the
\* same file starts on the artifacts the first invocation left.
Reinvoke ==
    /\ UNCHANGED notJob
    /\ jobPc = "done"
    /\ jobRun = 1
    /\ jobArts' = jobOut.arts
    /\ jobTools' = [t \in Tools |-> "ok"]
    /\ jobOut' = JobState(jobOut.arts)
    /\ jobReturn' = "none"
    /\ jobPc' = "start"
    /\ jobRun' = 2
    /\ UNCHANGED <<jobWorkflow, jobComplex>>

----------------------------------------------------------------------------
\* The three workflows: the dispatcher and the executor

MaxImages == 3

MaxCpu == 4

\* The worker count as it would be without the halving.
worker_count_not_halved(cpus) == IF cpus < 1 THEN 1 ELSE cpus

\* int(multiprocessing.cpu_count() / 2), and 1 when that is below 1
get_max_worker_count(cpus) == IF cpus \div 2 < 1 THEN 1 ELSE cpus \div 2

Files == 1..nImages

Running == {i \in Files : job[i] = "running"}

Submitted == {i \in Files : job[i] # "none"}

\* The job states as they would be if a raising job took the waiting jobs
\* with it.
JobRaisesCancelsRest(js, i) ==
    [k \in DOMAIN js |-> IF k = i THEN "raised"
                         ELSE IF js[k] = "pending" THEN "cancelled" ELSE js[k]]

\* The exception of a job is stored in its own future.
JobRaises(js, i) == [js EXCEPT ![i] = "raised"]

\* The with block as it would be left without waiting.
ShutdownNoWait(js) == TRUE

\* Leaving the with block is shutdown(wait=True): it returns when no job
\* is waiting or running.
ShutdownWaits(js) == \A i \in DOMAIN js : js[i] \notin {"pending", "running"}

PoolStart ==
    /\ workflow \in Workflows
    /\ complex_tca \in BOOLEAN
    /\ complex_tca => workflow = "tca"
    /\ cpu_count \in 1..MaxCpu
    /\ nImages \in 0..MaxImages
    /\ dirThere \in BOOLEAN
    /\ sidecarOk \in BOOLEAN
    /\ lenses_config_exists \in BOOLEAN
    /\ workflow # "distortion" => lenses_config_exists
    /\ lensesConf = IF lenses_config_exists THEN "edited" ELSE "absent"
    /\ startComplete \in BOOLEAN
    /\ artifacts = [i \in Files |-> IF startComplete
                                     THEN AllArtifacts(workflow, complex_tca)
                                     ELSE {}]
    /\ job = [i \in Files |-> "none"]
    /\ result_futures = {}
    /\ collected = {}
    /\ excPending = FALSE
    /\ invoked = {}
    /\ postStep = "none"
    /\ wpc = "start"

PoolIdle ==
    /\ workflow = "none"
    /\ complex_tca = FALSE
    /\ cpu_count = 0
    /\ nImages = 0
    /\ dirThere = FALSE
    /\ sidecarOk = FALSE
    /\ lenses_config_exists = FALSE
    /\ lensesConf = "absent"
    /\ startComplete = FALSE
    /\ artifacts = <<>>
    /\ job = <<>>
    /\ result_futures = {}
    /\ collected = {}
    /\ excPending = FALSE
    /\ invoked = {}
    /\ postStep = "none"
    /\ wpc = "idle"

poolInputs == <<workflow, complex_tca, cpu_count, nImages, dirThere, sidecarOk,
                lenses_config_exists, startComplete>>

\* The test as it would be without the sidecar.
DirectoryOnly(dir, sidecar) == dir

\* os.path.isdir of the input directory, then write_sidecar_file
PreconditionsHold(dir, sidecar) == dir /\ sidecar

\* The template test as it would be without the flag.
WritesTemplateAlways(wf, existed) == wf = "distortion"

\* if not lenses_config_exists: ... create_lenses_config, in run_distortion
WritesTemplate(wf, existed) == wf = "distortion" /\ ~existed

\* The directory test and write_sidecar_file: either failing, the run
\* returns at once.
CheckPreconditions ==
    /\ UNCHANGED notPool
    /\ wpc = "start"
    /\ wpc' = IF ~PreconditionsHold(dirThere, sidecarOk) THEN "refused"
              ELSE IF workflow = "distortion" THEN "exif" ELSE "submit"
    /\ UNCHANGED <<poolInputs, lensesConf, artifacts, job, result_futures, collected,
                   excPending, invoked, postStep>>

\* run_distortion reads the metadata of every raw file before the pool is
\* made; a missing exiftool ends the run with the exception.
ReadExifData ==
    /\ UNCHANGED notPool
    /\ wpc = "exif"
    /\ \E b \in Behaviours :
          LET s == image_read_exif(JobState({}), b) IN
          IF nImages = 0
          THEN wpc' = "submit" /\ UNCHANGED invoked
          ELSE /\ wpc' = IF s.raised THEN "raised" ELSE "submit"
               /\ invoked' = invoked \cup s.invoked
    /\ UNCHANGED <<poolInputs, lensesConf, artifacts, job, result_futures, collected,
                   excPending, postStep>>

\* executor.submit for the next file; run_tca does not keep the future.
Submit ==
    /\ UNCHANGED notPool
    /\ wpc = "submit"
    /\ \E i \in Files :
          /\ job[i] = "none"
          /\ \A k \in Files : k < i => job[k] # "none"
          /\ job' = [job EXCEPT ![i] = "pending"]
          /\ result_futures' = IF workflow = "tca" THEN result_futures
                               ELSE result_futures \cup {i}
    /\ UNCHANGED <<poolInputs, lensesConf, artifacts, collected, excPending,
                   invoked, postStep, wpc>>

\* The walk over the directory is over.
EndSubmit ==
    /\ UNCHANGED notPool
    /\ wpc = "submit"
    /\ \A i \in Files : job[i] # "none"
    /\ wpc' = "drain"
    /\ UNCHANGED <<poolInputs, lensesConf, artifacts, job, result_futures, collected,
                   excPending, invoked, postStep>>

\* A free worker takes the job that has waited longest.
StartJob ==
    /\ UNCHANGED notPool
    /\ wpc \in {"submit", "drain", "exit"}
    /\ Cardinality(Running) < get_max_worker_count(cpu_count)
    /\ \E i \in Files :
          /\ job[i] = "pending"
          /\ \A k \in Files : k < i => job[k] # "pending"
          /\ job' = [job EXCEPT ![i] = "running"]
    /\ UNCHANGED <<poolInputs, lensesConf, artifacts, result_futures, collected,
                   excPending, invoked, postStep, wpc>>

\* A running job ends: it returns True or its exception is stored.
FinishJob ==
    /\ UNCHANGED notPool
    /\ \E i \in Running, b \in Behaviours :
          LET r == JobBody(workflow, complex_tca, artifacts[i], b) IN
          /\ artifacts' = [artifacts EXCEPT ![i] = r.arts]
          /\ invoked' = invoked \cup r.invoked
          /\ job' = IF r.raised THEN JobRaises(job, i)
                    ELSE [job EXCEPT ![i] = "done"]
    /\ UNCHANGED <<poolInputs, lensesConf, result_futures, collected,
                   excPending, postStep, wpc>>

\* as_completed yields a finished future and f.result() is taken; the
\* exception of a job is raised again there.
Collect ==
    /\ UNCHANGED notPool
    /\ wpc = "drain"
    /\ \E i \in result_futures \ collected :
          /\ job[i] \in {"done", "raised"}
          /\ collected' = collected \cup {i}
          /\ excPending' = (job[i] = "raised")
          /\ wpc' = IF job[i] = "raised" THEN "exit" ELSE "drain"
    /\ UNCHANGED <<poolInputs, lensesConf, artifacts, job, result_futures, invoked,
                   postStep>>

\* as_completed has nothing more to yield.
EndDrain ==
    /\ UNCHANGED notPool
    /\ wpc = "drain"
    /\ result_futures \subseteq collected
    /\ wpc' = "exit"
    /\ UNCHANGED <<poolInputs, lensesConf, artifacts, job, result_futures, collected,
                   excPending, invoked, postStep>>

\* The with block is left; a pending exception then leaves the workflow.
LeaveWith ==
    /\ UNCHANGED notPool
    /\ wpc = "exit"
    /\ ShutdownWaits(job)
    /\ wpc' = IF excPending THEN "raised" ELSE "post"
    /\ UNCHANGED <<poolInputs, lensesConf, artifacts, job, result_futures, collected,
                   excPending, invoked, postStep>>

\* What follows the with block: create_lenses_config when there was no
\* lenses.conf, merge_final_pdf for vignetting and for complex TCA.
PostStep ==
    /\ UNCHANGED notPool
    /\ wpc = "post"
    /\ postStep' = IF WritesTemplate(workflow, lenses_config_exists) THEN "template"
                   ELSE IF workflow = "distortion" THEN "skipped"
                   ELSE IF workflow = "tca" /\ ~complex_tca THEN "skipped"
                   ELSE "merge"
    /\ lensesConf' = IF WritesTemplate(workflow, lenses_config_exists)
                     THEN "template" ELSE lensesConf
    /\ wpc' = "returned"
    /\ UNCHANGED <<poolInputs, artifacts, job, result_futures, collected,
                   excPending, invoked>>


----------------------------------------------------------------------------
\* The walk over the input directory: which files get a job, and the files
\* each job writes

\* At most this many files under the input directory.
MaxWalk == 2

\* A path below the input directory, as the tuple of its components.
Top == <<>>

\* The names of the directories below the input directory.
exported == <<"e", "x", "p", "o", "r", "t", "e", "d">>

WalkDirs == {exported, <<"1", ".", "0">>, <<"2">>, <<"b", "i", "n">>}

WalkPaths == {Top} \cup {<<d>> : d \in WalkDirs} \cup {<<exported, <<"2">>>>}

WalkNames == {[stem |-> "a", ext |-> ".NEF"], [stem |-> "a", ext |-> ".jpg"],
              [stem |-> "b", ext |-> ".txt"]}

\* str.upper on the extensions used.
upper(ext) ==
    IF ext = ".jpg" THEN ".JPG" ELSE IF ext = ".txt" THEN ".TXT" ELSE ext

raw_file_extensions == {".NEF", ".JPG", ".TIF"}

\* os.path.splitext(filename)[1].upper() in raw_file_extensions
is_raw_file(filename) == upper(filename.ext) \in raw_file_extensions

\* float(d) does not raise: d is 'inf' or a decimal literal.
IsFloatLiteral(d) ==
    \/ d = <<"i", "n", "f">>
    \/ LET body == IF d # <<>> /\ d[1] = "-" THEN Tail(d) ELSE d IN
        /\ \A i \in DOMAIN body : body[i] \in Digits \cup {"."}
        /\ \E i \in DOMAIN body : body[i] \in Digits
        /\ Cardinality({i \in DOMAIN body : body[i] = "."}) <= 1

\* os.path.basename(path)
basename(path) == path[Len(path)]

\* Whether the loop of the workflow submits a job for the file: run_distortion
\* and run_tca take the raw files of the top directory; run_vignetting takes
\* the raw files outside the export path, those below the top only under a
\* directory whose name float() accepts.
Accepted(wf, path, filename) ==
    IF wf = "vignetting"
    THEN /\ is_raw_file(filename)
         /\ path # <<exported>>
         /\ path # Top => IsFloatLiteral(basename(path))
    ELSE path = Top /\ is_raw_file(filename)

\* A run_vignetting that left distance at float("inf") for every file.
DistanceLeftAtInf(path) == float(<<"i", "n", "f">>)

\* distance = float("inf") unless the file is below the top directory.
DistanceOf(path) ==
    IF path = Top THEN float(<<"i", "n", "f">>) ELSE float(basename(path))

\* A file a job writes: every output path is
\* <input directory>/exported/<splitext(filename)[0]>.<suffix>.
OutputPath(wf, filename, suffix) ==
    [dir |-> <<wf, exported>>, stem |-> filename.stem, suffix |-> suffix]

\* The files the job of one input writes: one per artifact of the workflow.
JobWrites(wf, complex, path, filename) ==
    {OutputPath(wf, filename, a) : a \in AllArtifacts(wf, complex)}

\* The job submitted for a file.
WalkJob(wf, complex, path, filename) ==
    [path |-> path, filename |-> filename,
     distance |-> IF wf = "vignetting" THEN DistanceOf(path) ELSE None,
     writes |-> JobWrites(wf, complex, path, filename)]

\* os.walk goes top-down: the files of the top directory come first, the
\* files of one directory come together, and no file comes twice.
WalkOrders ==
    {w \in SeqsUpTo(WalkPaths \X WalkNames, MaxWalk) :
        /\ \A i, j \in DOMAIN w : i # j => w[i] # w[j]
        /\ \A i, j \in DOMAIN w : i < j /\ w[j][1] = Top => w[i][1] = Top
        /\ \A i, j, k \in DOMAIN w :
                i < j /\ j < k /\ w[i][1] = w[k][1] => w[j][1] = w[i][1]}

\* The three recipes: the darktable operations of each and whether each is
\* enabled, in the order of the history.
Op(operation, enabled) == [operation |-> operation, enabled |-> enabled]

DARKTABLE_DISTORTION_SIDECAR ==
    <<Op("basecurve", TRUE), Op("colorin", TRUE), Op("colorout", TRUE)>>

DARKTABLE_TCA_SIDECAR ==
    <<Op("basecurve", FALSE), Op("sharpen", FALSE), Op("highlights", FALSE),
      Op("colorin", TRUE), Op("colorout", TRUE)>>

DARKTABLE_VIGNETTING_SIDECAR ==
    <<Op("basecurve", FALSE), Op("sharpen", FALSE), Op("highlights", FALSE),
      Op("colorout", TRUE), Op("colorin", TRUE)>>

\* The content each run_... hands to write_sidecar_file.
SidecarContent(wf) ==
    IF wf = "tca" THEN DARKTABLE_TCA_SIDECAR ELSE DARKTABLE_DISTORTION_SIDECAR

\* A sidecar file: "absent", "locked" (absent, and open() fails), "found"
\* (there before the run) or "written".
Sidecar(state, content) == [state |-> state, content |-> content]

\* write_sidecar_file: a file that is there is left alone; else it is
\* written, and OSError gives False.
write_sidecar_file(file, content) ==
    IF file.state = "absent" THEN [ok |-> TRUE, file |-> Sidecar("written", content)]
    ELSE IF file.state = "locked" THEN [ok |-> FALSE, file |-> file]
    ELSE [ok |-> TRUE, file |-> file]

WalkStart ==
    /\ walkSidecar \in {Sidecar("absent", <<>>), Sidecar("locked", <<>>),
                        Sidecar("found", <<Op("sharpen", TRUE)>>)}
    /\ walkWorkflow \in Workflows
    /\ walkComplex \in IF walkWorkflow = "tca" THEN BOOLEAN ELSE {FALSE}
    /\ walkFiles \in WalkOrders
    /\ walkPos = 0
    /\ submitted = <<>>
    /\ walkPc = "start"

WalkIdle ==
    /\ walkWorkflow = "none"
    /\ walkComplex = FALSE
    /\ walkFiles = <<>>
    /\ walkPos = 0
    /\ submitted = <<>>
    /\ walkSidecar = Sidecar("absent", <<>>)
    /\ walkPc = "idle"

\* sidecar_file = ...; if not write_sidecar_file(...): print and return
WriteSidecar ==
    /\ UNCHANGED notWalk
    /\ walkPc = "start"
    /\ LET w == write_sidecar_file(walkSidecar, SidecarContent(walkWorkflow)) IN
        /\ walkSidecar' = w.file
        /\ walkPc' = IF w.ok THEN "walk" ELSE "refused"
    /\ UNCHANGED <<walkWorkflow, walkComplex, walkFiles, walkPos, submitted>>

\* One iteration of `for filename in files`: continue, or executor.submit.
VisitFile ==
    /\ UNCHANGED notWalk
    /\ walkPc = "walk"
    /\ walkPos < Len(walkFiles)
    /\ LET path == walkFiles[walkPos + 1][1]
           filename == walkFiles[walkPos + 1][2]
       IN  submitted' =
               IF Accepted(walkWorkflow, path, filename)
               THEN Append(submitted,
                           WalkJob(walkWorkflow, walkComplex, path, filename))
               ELSE submitted
    /\ walkPos' = walkPos + 1
    /\ UNCHANGED <<walkWorkflow, walkComplex, walkFiles, walkSidecar, walkPc>>

\* The walk is over: the dispatcher goes on to as_completed.
EndWalk ==
    /\ UNCHANGED notWalk
    /\ walkPc = "walk"
    /\ walkPos = Len(walkFiles)
    /\ walkPc' = "drain"
    /\ UNCHANGED <<walkWorkflow, walkComplex, walkFiles, walkPos, submitted,
                   walkSidecar>>

----------------------------------------------------------------------------
\* run_distortion and create_lenses_config: the template lenses.conf

\* At most this many images in the distortion directory.
MaxShots == 3

\* The focal lengths of the images, in hundredths of a millimetre.
ShotFocals == {3500, 5000, 5004}

ShotLenses == <<"LensA", "LensB">>

\* What create_lenses_config reads of a sample.
Shot(l, f) == [lens_model |-> l, focal_length |-> f]

RECURSIVE NatToDigits(_)
NatToDigits(n) ==
    IF n < 10 THEN <<AsciiOrder[Ord("0") + n]>>
    ELSE NatToDigits(n \div 10) \o <<AsciiOrder[Ord("0") + (n % 10)]>>

\* "%.1f" % focal_length, the focal length in hundredths.
FormatOneDecimal(h) ==
    LET tenths == (h + 5) \div 10 IN
    NatToDigits(tenths \div 10) \o <<".">> \o NatToDigits(tenths % 10)

\* sorted(group, key=lambda exif : exif['focal_length']): stable.
RECURSIVE SortByFocal(_)
SortByFocal(group) ==
    IF group = <<>> THEN <<>>
    ELSE LET i == CHOOSE k \in DOMAIN group :
                    /\ \A j \in DOMAIN group :
                            group[k].focal_length <= group[j].focal_length
                    /\ \A j \in 1..(k - 1) :
                            group[j].focal_length # group[k].focal_length
             rest == [j \in 1..(Len(group) - 1) |->
                        IF j < i THEN group[j] ELSE group[j + 1]]
         IN  <<group[i]>> \o SortByFocal(rest)

\* A template in which only the first sample of a group gets an entry.
FirstSampleOnly(group) == {DistortionKey(FormatOneDecimal(group[1].focal_length))}

\* The keys config[lenses][distortion] is assigned for the samples of a
\* group; assigning a key again leaves one entry.
TemplateKeys(group) ==
    {DistortionKey(FormatOneDecimal(group[i].focal_length)) : i \in DOMAIN group}

\* The section create_lenses_config writes for one lens: maker, mount,
\* cropfactor and aspect_ratio come from the first sample of the sorted
\* group, every distortion entry is '0.0, 0.0, 0.0'.
TemplateSection(lens, group) ==
    [name |-> lens, type |-> "normal", from |-> group[1],
     keys |-> [k \in TemplateKeys(group) |-> Field3]]

\* for lenses in sorted(lenses_exif_group): ... ; create_lenses_config
RECURSIVE TemplateFor(_, _)
TemplateFor(groups, order) ==
    IF order = <<>> THEN <<>>
    ELSE IF order[1] \in DOMAIN groups
    THEN <<TemplateSection(order[1], SortByFocal(groups[order[1]]))>>
            \o TemplateFor(groups, Tail(order))
    ELSE TemplateFor(groups, Tail(order))

TplStart ==
    /\ tplSamples \in SeqsUpTo({Shot(ShotLenses[i], f) :
                                    i \in DOMAIN ShotLenses, f \in ShotFocals},
                               MaxShots)
    /\ tplExists \in BOOLEAN
    /\ tplPos = 0
    /\ lenses_exif_group = <<>>
    /\ tplConf = <<>>
    /\ tplPc = "group"

TplIdle ==
    /\ tplSamples = <<>>
    /\ tplExists = FALSE
    /\ tplPos = 0
    /\ lenses_exif_group = <<>>
    /\ tplConf = <<>>
    /\ tplPc = "idle"

\* One iteration of the loop that reads the samples: the sample is appended
\* to the group of its lens model.
GroupSample ==
    /\ UNCHANGED notTpl
    /\ tplPc = "group"
    /\ tplPos < Len(tplSamples)
    /\ LET exif == tplSamples[tplPos + 1]
           old == DictGet(lenses_exif_group, exif.lens_model, <<>>)
       IN  lenses_exif_group' =
               DictSet(lenses_exif_group, exif.lens_model, Append(old, exif))
    /\ tplPos' = tplPos + 1
    /\ UNCHANGED <<tplSamples, tplExists, tplConf, tplPc>>

\* The loop is over; the jobs run next.
EndGrouping ==
    /\ UNCHANGED notTpl
    /\ tplPc = "group"
    /\ tplPos = Len(tplSamples)
    /\ tplPc' = "post"
    /\ UNCHANGED <<tplSamples, tplExists, tplPos, lenses_exif_group, tplConf>>

\* if not lenses_config_exists: sort the groups and write the template.
WriteTemplate ==
    /\ UNCHANGED notTpl
    /\ tplPc = "post"
    /\ IF WritesTemplate("distortion", tplExists)
       THEN /\ tplConf' = TemplateFor(lenses_exif_group, ShotLenses)
            /\ tplPc' = "written"
       ELSE /\ tplConf' = tplConf
            /\ tplPc' = "kept"
    /\ UNCHANGED <<tplSamples, tplExists, tplPos, lenses_exif_group>>

----------------------------------------------------------------------------
\* Specifications: one per part of the program, the other parts idle

XmlIdle ==
    /\ confExists = FALSE
    /\ confFile = <<>>
    /\ tcaFiles = <<>>
    /\ vigFiles = <<>>
    /\ lenses = <<>>
    /\ lensOrder = <<>>
    /\ xpc = "idle"
    /\ xerr = "none"
    /\ scanPos = 0
    /\ emitPos = 0
    /\ outExists = FALSE
    /\ output = <<>>
    /\ workdir = {}
    /\ archive = {}

\* Bounded inputs: the working directory before the run.
Workdirs == {{}, {LensfunXml, TcaPdf, PreviewJpg}}

XmlStart ==
    /\ confExists \in BOOLEAN
    /\ confFile \in IF confExists
                     THEN SeqsUpTo(ConfSections \cup {OtherLensSection}, 1)
                     ELSE {<<>>}
    /\ tcaFiles \in TcaFileLists
    /\ vigFiles \in VigFileLists
    /\ lenses = <<>>
    /\ lensOrder = <<>>
    /\ xpc = "start"
    /\ xerr = "none"
    /\ scanPos = 0
    /\ emitPos = 0
    /\ outExists = FALSE
    /\ output = <<>>
    /\ workdir \in Workdirs
    /\ archive = {}

NextXml ==
    \/ NoLensesConfig
    \/ ParseLensesConfig
    \/ ScanTcaFile
    \/ ScanVigFile
    \/ OpenOutput
    \/ EmitDistortion
    \/ EmitTca
    \/ EmitVignetting
    \/ Ship

InitXml == XmlStart /\ TcaIdle /\ PgmIdle /\ BinIdle /\ PoolIdle /\ JobIdle /\ ExifIdle
    /\ WalkIdle /\ TplIdle

SpecXml == InitXml /\ [][NextXml]_vars

InitTca == TcaStart /\ XmlIdle /\ PgmIdle /\ BinIdle /\ PoolIdle /\ JobIdle /\ ExifIdle
    /\ WalkIdle /\ TplIdle

NextTca == ParseTcaOutput

SpecTca == InitTca /\ [][NextTca]_vars

InitPgm == PgmStart /\ XmlIdle /\ TcaIdle /\ BinIdle /\ PoolIdle /\ JobIdle /\ ExifIdle
    /\ WalkIdle /\ TplIdle

NextPgm == LoadPgm

SpecPgm == InitPgm /\ [][NextPgm]_vars

InitBin == BinStart /\ XmlIdle /\ TcaIdle /\ PgmIdle /\ PoolIdle /\ JobIdle /\ ExifIdle
    /\ WalkIdle /\ TplIdle

NextBin ==
    \/ VigAlreadyThere
    \/ CollectSamples
    \/ BinSamples

SpecBin == InitBin /\ [][NextBin]_vars

InitPool == PoolStart /\ XmlIdle /\ TcaIdle /\ PgmIdle /\ BinIdle /\ JobIdle /\ ExifIdle
    /\ WalkIdle /\ TplIdle

NextPool ==
    \/ CheckPreconditions
    \/ ReadExifData
    \/ Submit
    \/ EndSubmit
    \/ StartJob
    \/ FinishJob
    \/ Collect
    \/ EndDrain
    \/ LeaveWith
    \/ PostStep

SpecPool == InitPool /\ [][NextPool]_vars

InitJob == JobStart /\ XmlIdle /\ TcaIdle /\ PgmIdle /\ BinIdle /\ PoolIdle /\ ExifIdle
    /\ WalkIdle /\ TplIdle

NextJob == RunJob \/ Reinvoke

SpecJob == InitJob /\ [][NextJob]_vars

InitExif == ExifStart /\ XmlIdle /\ TcaIdle /\ PgmIdle /\ BinIdle /\ PoolIdle /\ JobIdle
    /\ WalkIdle /\ TplIdle

NextExif == ReadExif

SpecExif == InitExif /\ [][NextExif]_vars

InitWalk == WalkStart /\ XmlIdle /\ TcaIdle /\ PgmIdle /\ BinIdle /\ PoolIdle
    /\ JobIdle /\ ExifIdle /\ TplIdle

NextWalk == WriteSidecar \/ VisitFile \/ EndWalk

SpecWalk == InitWalk /\ [][NextWalk]_vars

InitTpl == TplStart /\ XmlIdle /\ TcaIdle /\ PgmIdle /\ BinIdle /\ PoolIdle
    /\ JobIdle /\ ExifIdle /\ WalkIdle

NextTpl == GroupSample \/ EndGrouping \/ WriteTemplate

SpecTpl == InitTpl /\ [][NextTpl]_vars

----------------------------------------------------------------------------
\* Claims about generate_xml (SpecXml)

\* The vignetting block of lens l has been written.
VignettingWritten(l) ==
    \E i \in DOMAIN lensOrder :
        lensOrder[i] = l /\ outExists /\ (i < emitPos \/ xpc = "done")

\* The distortion block of lens l has been run (to its end or to an error).
DistortionRun(l) ==
    \E i \in DOMAIN lensOrder :
        /\ lensOrder[i] = l /\ outExists
        /\ i < emitPos \/ (i = emitPos /\ xpc # "distortion")

\* The positions of the vignetting elements written for one group.
GroupElements(l, f, a) ==
    {i \in DOMAIN output :
        /\ output[i].tag = "vignetting" /\ output[i].lens = l
        /\ output[i].focal = f /\ output[i].aperture = a}

\* The groups (focal length, aperture) of lens l with exactly one recorded
\* distance, which serializes to 1000.
SingleFarGroups(l) ==
    {fa \in UNION {{<<f, a>> : a \in DOMAIN lenses[l].vignetting[f]} :
                      f \in DOMAIN lenses[l].vignetting} :
        LET ds == DOMAIN lenses[l].vignetting[fa[1]][fa[2]] IN
        Cardinality(ds) = 1 /\ \A d \in ds : d \in {sInf, s1000}}

\* C1: once the vignetting block of a lens is written, every group of it
\* with exactly one recorded distance, serializing to 1000, has exactly two
\* vignetting elements: the first at distance 10, the second at distance
\* 1000, both with the k1, k2, k3 of the recorded entry.
C1_SingleFarDistanceWrittenTwice ==
    \A l \in DOMAIN lenses :
        VignettingWritten(l) =>
            \A fa \in SingleFarGroups(l) :
                LET at == GroupElements(l, fa[1], fa[2])
                    byD == lenses[l].vignetting[fa[1]][fa[2]]
                    e == byD[CHOOSE d \in DOMAIN byD : TRUE]
                IN  /\ Cardinality(at) = 2
                    /\ \E i, j \in at :
                        /\ i < j
                        /\ output[i].distance = s10
                        /\ output[j].distance = s1000
                        /\ output[i].data = <<e["k1"], e["k2"], e["k3"]>>
                        /\ output[j].data = output[i].data

\* C1 witness: a finished run whose lens has a single-distance group at
\* infinity and an element at distance 10.
C1_Witness ==
    /\ xpc = "done"
    /\ \E l \in DOMAIN lenses : SingleFarGroups(l) # {}
    /\ \E i \in DOMAIN output :
        output[i].tag = "vignetting" /\ output[i].distance = s10

\* The number of comma-separated values of a distortion field.
ValueCount(field) == Len(split(field, ","))

\* C2: once the distortion block of a lens has run, every three-value
\* entry of it has a model="ptlens" element with a, b, c and every
\* single-value entry has a model="poly3" element with only k1.
C2_ModelByValueCount ==
    \A l \in DOMAIN lenses :
        DistortionRun(l) =>
            \A f \in DOMAIN lenses[l].distortion :
                LET field == lenses[l].distortion[f]
                    data == DistortionData(field)
                IN  /\ ValueCount(field) = 3 =>
                        \E i \in DOMAIN output :
                            /\ output[i].tag = "distortion" /\ output[i].lens = l
                            /\ output[i].focal = f /\ output[i].model = "ptlens"
                            /\ output[i].data = <<data[1], data[2], data[3]>>
                    /\ ValueCount(field) = 1 =>
                        \E i \in DOMAIN output :
                            /\ output[i].tag = "distortion" /\ output[i].lens = l
                            /\ output[i].focal = f /\ output[i].model = "poly3"
                            /\ output[i].data = <<data[1]>>

\* Two elements of the same block of the same lens record.
SameBlock(i, j) ==
    /\ output[i].tag = output[j].tag
    /\ output[i].lens = output[j].lens
    /\ output[i].tag \in {"distortion", "tca", "vignetting"}

NumLess(a, b) == FloatLess(float(a), float(b))

\* C3: in the record written so far, within each block of a lens the
\* elements are in strictly ascending numeric focal-length order
\* (distortion, tca); vignetting elements are ascending by focal length,
\* then by aperture, then by the recorded distance ('inf' last), the two
\* elements of a doubled distance at 10 before 1000.
C3_NumericAscendingOrder ==
    \A i, j \in DOMAIN output :
        (i < j /\ SameBlock(i, j)) =>
            LET x == output[i]
                y == output[j]
            IN  IF x.tag # "vignetting" THEN NumLess(x.focal, y.focal)
                ELSE \/ NumLess(x.focal, y.focal)
                     \/ /\ x.focal = y.focal
                        /\ \/ NumLess(x.aperture, y.aperture)
                           \/ /\ x.aperture = y.aperture
                              /\ \/ NumLess(x.dkey, y.dkey)
                                 \/ /\ x.dkey = y.dkey
                                    /\ NumLess(x.distance, y.distance)

\* C3 witness: a finished record with distortion 7.0 before 100.0, tca 7.0
\* before 14.0, vignetting 14.0 before 100.0: each pair is in the opposite
\* order as strings.
C3_Witness ==
    /\ xpc = "done"
    /\ \E i, j \in DOMAIN output :
        /\ i < j /\ output[i].tag = "distortion" /\ output[j].tag = "distortion"
        /\ output[i].focal = s7_0 /\ output[j].focal = s100_0
    /\ \E i, j \in DOMAIN output :
        /\ i < j /\ output[i].tag = "tca" /\ output[j].tag = "tca"
        /\ output[i].focal = s7_0 /\ output[j].focal = s14_0
    /\ \E i, j \in DOMAIN output :
        /\ i < j /\ output[i].tag = "vignetting" /\ output[j].tag = "vignetting"
        /\ output[i].focal = s14_0 /\ output[j].focal = s100_0

----------------------------------------------------------------------------
\* Claims about the TCA extractor (SpecTca)

\* C4 as stated: for every line of the shape, whatever signed decimals its
\* eight fields are, the parse yields the second and fourth field of the
\* -r group and of the -b group.
C4_AnyFieldsParsed ==
    tcaPc = "done" =>
        /\ tcaData.matched
        /\ tcaData.groups["br"] = tcaFields[2]
        /\ tcaData.groups["vr"] = tcaFields[4]
        /\ tcaData.groups["bb"] = tcaFields[6]
        /\ tcaData.groups["vb"] = tcaFields[8]

\* A field the pattern's [.0]+ accepts.
OnlyZerosAndDots(field) == field # <<>> /\ \A i \in DOMAIN field : field[i] \in {"0", "."}

\* C4 amended: for every line of the shape whose ignored fields consist
\* only of the characters 0 and . and whose other fields are signed
\* decimals, the parse yields br, vr, bb, vb equal to the second and fourth
\* field of the -r group and of the -b group.
C4_ZeroFieldsParsed ==
    (tcaPc = "done" /\ \A i \in {1, 3, 5, 7} : OnlyZerosAndDots(tcaFields[i])) =>
        /\ tcaData.matched
        /\ tcaData.groups["br"] = tcaFields[2]
        /\ tcaData.groups["vr"] = tcaFields[4]
        /\ tcaData.groups["bb"] = tcaFields[6]
        /\ tcaData.groups["vb"] = tcaFields[8]

\* C4 witness: the line '-r 0.0:-0.002:0.0:0.001 -b 0.0:0.003:0.0:-0.001'
\* has been parsed.
C4_Witness ==
    /\ tcaPc = "done"
    /\ tcaFields = <<Field1, <<"-", "0", ".", "0", "0", "2">>, Field1,
                     <<"0", ".", "0", "0", "1">>, Field1,
                     <<"0", ".", "0", "0", "3">>, Field1,
                     <<"-", "0", ".", "0", "0", "1">>>>
    /\ tcaData.matched

----------------------------------------------------------------------------
\* Claims about the raster decoder

\* int(a) <= int(b) for two texts of digits.
NatLeq(a, b) ==
    LET x == StripLeadingZeros(a)
        y == StripLeadingZeros(b)
    IN  \/ Len(x) < Len(y)
        \/ Len(x) = Len(y) /\ ~DigitsLexLess(y, x)

\* The sample type by the range of the maximum value: one byte up to 255,
\* two bytes from 256 to 65535, four for 4294967295.
SampleTypeByRange(maxval) ==
    IF NatLeq(maxval, Text255)
    THEN [known |-> TRUE, dtype |-> "uint8", itemsize |-> 1]
    ELSE IF NatLeq(maxval, Text65535)
    THEN [known |-> TRUE, dtype |-> "uint16", itemsize |-> 2]
    ELSE IF SameNat(maxval, Text4294967295)
    THEN [known |-> TRUE, dtype |-> "float32", itemsize |-> 4]
    ELSE NoType

\* C9: once a raster has been decoded, a header that matches with a maximum
\* value of at most 255 gave 1-byte samples, one from 256 to 65535 gave
\* 2-byte big-endian samples, one of 4294967295 gave 4-byte floats (each
\* when the file holds the samples), and any other maximum value or a header
\* that does not match gave a format error.
C9_SampleWidthByRange ==
    pgmPc = "done" =>
        LET hd == HeaderSearch(pgmBuf)
            dt == SampleTypeByRange(hd.maxval)
        IN  IF hd.matched /\ dt.known
            THEN pgmPayload >= DigitsToNat(hd.width) * DigitsToNat(hd.height) * dt.itemsize
                 => /\ pgmResult.status = "ok"
                    /\ pgmResult.dtype = dt.dtype
                    /\ pgmResult.itemsize = dt.itemsize
                    /\ pgmResult.byteorder = "B"
            ELSE /\ pgmResult.status = "ValueError"
                 /\ pgmResult.why = "Not a NetPGM file"

----------------------------------------------------------------------------
\* Claims about the radial binning

\* The bins in which sample i has been put.
BinsOf(i) == {k \in DOMAIN bins : \E j \in DOMAIN bins[k] : bins[k][j] = i}

RECURSIVE SumLen(_, _)
SumLen(bs, k) == IF k < 0 THEN 0 ELSE Len(bs[k]) + SumLen(bs, k - 1)

\* C10: the binning loop never leaves the bins (no IndexError), and once it
\* has run there are exactly 16 bins with indices 0..15, every retained
\* sample is in exactly one bin, that bin is round(radius * 15), and the
\* sizes of the bins add up to the number of retained samples.
C10_EverySampleInOneBin ==
    /\ binErr # "IndexError"
    /\ binPc = "binned" =>
        /\ DOMAIN bins = 0..15
        /\ \A i \in DOMAIN samples :
              /\ Cardinality(BinsOf(i)) = 1
              /\ BinsOf(i) = {RoundScaled(samples[i].d2,
                                          half_diagonal2(rasterW, rasterH), 15)}
        /\ SumLen(bins, 15) = Len(samples)

\* C10 witness: a 4 x 3 raster has been binned; its 12 samples are all
\* retained, the centre is in bin 0 and the corner in bin 15.
C10_Witness ==
    /\ binPc = "binned"
    /\ rasterW = 4
    /\ rasterH = 3
    /\ Len(samples) = 12
    /\ bins[0] # <<>>
    /\ bins[15] # <<>>

----------------------------------------------------------------------------
\* Claims about the workflows

\* C5 as stated: in an invocation that found every per-image artifact in
\* place, no external tool is ever run.
C5_NoToolOnRerun ==
    startComplete => invoked = {}

\* C5: in an invocation that found every per-image artifact in place, the
\* image converter, the chromatic-aberration detector, the grayscale
\* converter and the plotting tool are never run; the metadata tool is
\* the only tool run, and it has been run once a job has completed.
C5_OnlyMetadataToolOnRerun ==
    startComplete =>
        /\ invoked \subseteq {"exiftool"}
        /\ (\E i \in Files : job[i] = "done") => invoked = {"exiftool"}

\* C5 witness: a vignetting run over two or more files that all had their
\* artifacts has returned, after its final merge, with only exiftool run.
C5_Witness ==
    /\ startComplete
    /\ workflow = "vignetting"
    /\ nImages >= 2
    /\ wpc = "returned"
    /\ postStep = "merge"
    /\ \A i \in Files : job[i] = "done" /\ artifacts[i] = AllArtifacts("vignetting", FALSE)
    /\ invoked = {"exiftool"}

\* C6: when a workflow invocation has ended, by returning or by an
\* exception, every job it submitted has run to its own end: it is done
\* or has raised itself; none is left waiting, running or cancelled, also
\* when another job has raised.
C6_FailureLeavesOtherJobs ==
    wpc \in {"returned", "raised"} =>
        \A i \in Submitted : job[i] \in {"done", "raised"}

\* C6 witness: an invocation has ended with the exception of a job of one
\* worker's pool, and both a raised job and a later, completed job are
\* there.
C6_Witness ==
    /\ wpc = "raised"
    /\ get_max_worker_count(cpu_count) = 1
    /\ \E i, k \in Files : i < k /\ job[i] = "raised" /\ job[k] = "done"

\* C7: the step after the with block (the template for distortion, the
\* final merge for tca and vignetting) is reached or done only when every
\* file has its job submitted and every job is done or has raised.
C7_PostStepAfterAllJobs ==
    (wpc = "post" \/ postStep # "none") =>
        \A i \in Files : job[i] \in {"done", "raised"}

\* C7 witness: a complex TCA run, whose dispatcher keeps no future, is
\* about to merge the plots with two or more jobs finished.
C7_Witness ==
    /\ wpc = "post"
    /\ workflow = "tca"
    /\ complex_tca
    /\ result_futures = {}
    /\ nImages >= 2
    /\ \A i \in Files : job[i] \in {"done", "raised"}

\* C8: the number of running jobs never exceeds max(1, floor(cpu_count /
\* 2)), and the worker count given to the executor is at least 1 for every
\* CPU count, 1 included.
C8_RunningJobsBounded ==
    LET bound == IF cpu_count \div 2 > 1 THEN cpu_count \div 2 ELSE 1 IN
    wpc # "idle" =>
        /\ Cardinality(Running) <= bound
        /\ get_max_worker_count(cpu_count) >= 1

\* C8 witness: with four CPUs two jobs are running and a third is waiting.
C8_Witness ==
    /\ cpu_count = 4
    /\ Cardinality(Running) = 2
    /\ \E i \in Files : job[i] = "pending"

\* C13: in an invocation whose input directory is missing or whose sidecar
\* cannot be written, the dispatcher never gets past its return: no job is
\* ever submitted, no tool is ever run and nothing follows.
C13_RefusedBeforeDispatch ==
    (wpc # "idle" /\ ~(dirThere /\ sidecarOk)) =>
        /\ wpc \in {"start", "refused"}
        /\ Submitted = {}
        /\ invoked = {}
        /\ postStep = "none"

\* C13 witness: a run with files to dispatch has returned because its
\* sidecar could not be written, the directory being there.
C13_Witness ==
    /\ wpc = "refused"
    /\ dirThere
    /\ ~sidecarOk
    /\ nImages >= 1

\* C14: when a distortion or vignetting invocation in which a job has
\* raised has ended, it has returned, the result of every future has been
\* taken and the step after the with block has been done.
C14_ErrorConfinedToJob ==
    (/\ workflow \in {"distortion", "vignetting"}
     /\ wpc \in {"returned", "raised"}
     /\ \E i \in Files : job[i] = "raised") =>
        /\ wpc = "returned"
        /\ result_futures \subseteq collected
        /\ postStep # "none"

\* C16: a lenses.conf that was there when the invocation started is as it
\* was found, in every state of every workflow; lenses.conf is the
\* template only after the last step of a distortion run that found none.
C16_ExistingConfigUntouched ==
    wpc # "idle" =>
        /\ lenses_config_exists => lensesConf = "edited"
        /\ lensesConf = "template" =>
              /\ workflow = "distortion"
              /\ ~lenses_config_exists
              /\ wpc = "returned"

\* C16 witness: a distortion run that found lenses.conf has returned after
\* its jobs, and the file is as it was found.
C16_Witness ==
    /\ workflow = "distortion"
    /\ lenses_config_exists
    /\ wpc = "returned"
    /\ postStep = "skipped"
    /\ nImages >= 1
    /\ lensesConf = "edited"

\* C20: when an invocation returns, the dispatcher has taken the result of
\* every job it submitted.
C20_EveryOutcomeCollected ==
    wpc = "returned" => Submitted \subseteq collected

----------------------------------------------------------------------------
\* Claims about one job

\* C11: a TCA job whose detector printed something that is not a TCA line
\* has ended with an exception, not with True, and has printed that the
\* TCA correction data could not be found.
C11_UnmatchedOutputAbortsJob ==
    (/\ jobPc = "done"
     /\ jobWorkflow = "tca"
     /\ jobTools["tca_correct"] = "garbage"
     /\ "tca_correct" \in jobOut.invoked) =>
        /\ jobReturn = "exception"
        /\ "Could not find tca correction data" \in jobOut.printed

\* The tools of which C12 speaks: the image converter, the detector, the
\* grayscale converter and the plotting tool.
LocatedTools == {"darktable-cli", "tca_correct", "convert", "gnuplot"}

\* C12: a job that did not find one of its tools has printed a message
\* about it and has ended without an exception and without the success
\* result True.
C12_MissingToolGivesNegativeResult ==
    (jobPc = "done" /\ jobOut.notFound \cap LocatedTools # {}) =>
        /\ jobOut.printed # {}
        /\ jobReturn \notin {"exception", "True"}

----------------------------------------------------------------------------
\* Claims about the metadata resolver

\* C15: whenever exiftool has exited with an error or could not be run,
\* image_read_exif has still returned a sample, and its crop_factor is 0.0.
C15_ToolFailureGivesZeroCrop ==
    (exifPc = "done" /\ exifTool \in {"fail", "missing"}) =>
        /\ exifOut.status = "ok"
        /\ exifOut.crop_factor = <<"0.0">>

\* C17: run_generate_xml writes nothing to its output before lenses.conf and
\* every artifact are merged into the tree: while it parses and scans, and
\* after a scan has failed, no output file exists; once the file exists,
\* every .tca and .vig artifact is in the tree of its lens.
C17_OutputOnlyAfterMerge ==
    /\ xpc \in {"start", "tca", "vig", "open", "returned"} =>
            ~outExists /\ output = <<>>
    /\ xpc = "raised" /\ xerr = "KeyError" => ~outExists /\ output = <<>>
    /\ outExists =>
        /\ \A i \in DOMAIN tcaFiles :
                /\ tcaFiles[i].lens \in DOMAIN lenses
                /\ tcaFiles[i].focal_length \in DOMAIN lenses[tcaFiles[i].lens].tca
        /\ \A i \in DOMAIN vigFiles :
                LET art == vigFiles[i] IN
                /\ art.lens \in DOMAIN lenses
                /\ art.focal_length \in DOMAIN lenses[art.lens].vignetting
                /\ art.aperture \in
                        DOMAIN lenses[art.lens].vignetting[art.focal_length]
                /\ art.distance \in
                        DOMAIN lenses[art.lens].vignetting[art.focal_length][art.aperture]

\* C17 witness: the output file is open after a .tca and a .vig artifact
\* were merged.
C17_Witness ==
    /\ outExists
    /\ tcaFiles # <<>>
    /\ vigFiles # <<>>
    /\ \E l \in DOMAIN lenses :
            lenses[l].tca # <<>> /\ lenses[l].vignetting # <<>>

\* C17, the failing case: an artifact names a lens that lenses.conf lacks,
\* and the run ends with no output file.
C17_FailureWitness ==
    /\ xpc = "raised"
    /\ xerr = "KeyError"
    /\ ~outExists

\* C19: a ship run directly after a generate_xml that ended well, in a
\* directory that held no lensfun.xml before, creates the archive, and the
\* record generate_xml wrote is in it.
C19_ShipFindsGeneratedRecord ==
    xpc \in {"shipped", "not_shipped"} /\ LensfunXml \notin workdir =>
        /\ xpc = "shipped"
        /\ OutputName(lensOrder[1]) \in archive

\* C18: any two different input files dispatched in one invocation have
\* jobs that write disjoint sets of files.
C18_JobsWriteDisjointFiles ==
    \A i, j \in DOMAIN submitted :
        i # j => submitted[i].writes \cap submitted[j].writes = {}

\* The jobs submitted for the file at position i of the walk.
JobsFor(i) ==
    {k \in DOMAIN submitted :
        /\ submitted[k].path = walkFiles[i][1]
        /\ submitted[k].filename = walkFiles[i][2]}

\* C30: once the vignetting walk is over, a raw file directly in the
\* vignetting directory has exactly one job, with distance infinity; a raw
\* file in a directory other than the export directory whose name is a
\* number has exactly one job, with that number as distance; a file in the
\* export directory, in a directory whose name is no number, or that is no
\* image has no job.
C30_OneJobPerAcceptedFile ==
    walkWorkflow = "vignetting" /\ walkPc = "drain" =>
        \A i \in DOMAIN walkFiles :
            LET path == walkFiles[i][1]
                name == walkFiles[i][2]
                image == name.ext \in {".NEF", ".jpg"}
                dir == path[Len(path)]
            IN  IF image /\ path = <<>>
                THEN /\ Cardinality(JobsFor(i)) = 1
                     /\ \A k \in JobsFor(i) : submitted[k].distance.inf
                ELSE IF image /\ path # <<exported>>
                              /\ dir \in {<<"1", ".", "0">>, <<"2">>}
                THEN /\ Cardinality(JobsFor(i)) = 1
                     /\ \A k \in JobsFor(i) :
                            /\ ~submitted[k].distance.inf
                            /\ submitted[k].distance.frac = <<>>
                            /\ submitted[k].distance.int =
                                    (IF dir = <<"2">> THEN 2 ELSE 1)
                ELSE JobsFor(i) = {}

\* C30 witness: a vignetting walk is over that gave a job at infinity to a
\* file of the top directory and a job at distance 1 to a file of 1.0.
C30_Witness ==
    /\ walkWorkflow = "vignetting"
    /\ walkPc = "drain"
    /\ \E j, k \in DOMAIN submitted :
            /\ submitted[j].path = <<>> /\ submitted[j].distance.inf
            /\ submitted[k].path = <<<<"1", ".", "0">>>>
            /\ submitted[k].distance.int = 1

\* The value of the first tag of the list that the file has, <<"Standard">>
\* when it has none of them.
RECURSIVE FirstPresent(_, _)
FirstPresent(data, order) ==
    IF order = <<>> THEN <<"Standard">>
    ELSE IF data[order[1]] # <<>> THEN data[order[1]]
    ELSE FirstPresent(data, Tail(order))

\* C25: the lens model of a sample is the value of the first field present
\* in the order primary lens model, Nikon lens ID, Panasonic lens type, Sony
\* lens ID, Minolta lens ID, Olympus lens type, and 'Standard' when none of
\* the six is present.
C25_FirstPresentFieldGivesLensModel ==
    exifPc = "done" /\ exifOut.status = "ok" =>
        exifOut.lens_model =
            FirstPresent(exifTags,
                         <<"Exif.Photo.LensModel", "Exif.NikonLd3.LensIDNumber",
                           "Exif.Panasonic.LensType", "Exif.Sony1.LensID",
                           "Exif.Minolta.LensID", "Exif.OlympusEq.LensType">>)

\* C26: the mount of a sample is '4/3 System' for the maker 'Olympus Zuiko
\* Digital', 'Olympus OM' for the maker 'Olympus Zuiko OM System', and unset
\* for every other maker, the sentinels for an unknown maker included.
C26_MountSetForTwoMakersOnly ==
    exifPc = "done" /\ exifOut.status = "ok" =>
        exifOut.mount =
            (IF exifOut.lens_maker = <<"Olympus", "Zuiko", "Digital">>
             THEN <<"4/3", "System">>
             ELSE IF exifOut.lens_maker = <<"Olympus", "Zuiko", "OM", "System">>
             THEN <<"Olympus", "OM">>
             ELSE <<>>)

\* The operations a recipe disables.
Disabled(recipe) ==
    {recipe[i].operation : i \in {k \in DOMAIN recipe : ~recipe[k].enabled}}

\* C29: the sidecar a workflow creates holds the recipe of that workflow:
\* for vignetting the one with base curve, sharpening and highlight
\* reconstruction disabled, for tca the TCA recipe, for distortion the
\* distortion recipe.
C29_SidecarHoldsOwnRecipe ==
    walkSidecar.state = "written" =>
        /\ walkWorkflow = "distortion" =>
                walkSidecar.content = DARKTABLE_DISTORTION_SIDECAR
        /\ walkWorkflow = "tca" => walkSidecar.content = DARKTABLE_TCA_SIDECAR
        /\ walkWorkflow = "vignetting" =>
                /\ walkSidecar.content = DARKTABLE_VIGNETTING_SIDECAR
                /\ Disabled(walkSidecar.content) =
                        {"basecurve", "sharpen", "highlights"}

\* The last .tca file of the scan with the lens and focal length of file i.
LastTca(i) ==
    CHOOSE j \in DOMAIN tcaFiles :
        /\ tcaFiles[j].lens = tcaFiles[i].lens
        /\ tcaFiles[j].focal_length = tcaFiles[i].focal_length
        /\ \A k \in DOMAIN tcaFiles :
                (/\ tcaFiles[k].lens = tcaFiles[i].lens
                 /\ tcaFiles[k].focal_length = tcaFiles[i].focal_length) => k <= j

SameVigKey(a, b) ==
    /\ a.lens = b.lens
    /\ a.focal_length = b.focal_length
    /\ a.aperture = b.aperture
    /\ a.distance = b.distance

\* The last .vig file of the scan with the key of file i.
LastVig(i) ==
    CHOOSE j \in DOMAIN vigFiles :
        /\ SameVigKey(vigFiles[j], vigFiles[i])
        /\ \A k \in DOMAIN vigFiles :
                SameVigKey(vigFiles[k], vigFiles[i]) => k <= j

\* C22: once both scans are over, the tree holds under the focal length of
\* every .tca artifact exactly the fields of the last artifact scanned
\* with that lens and focal length, and under the focal length, aperture
\* and distance of every .vig artifact exactly the fields of the last
\* artifact scanned with that key.
C22_LastScannedArtifactWins ==
    outExists =>
        /\ \A i \in DOMAIN tcaFiles :
                LET art == tcaFiles[i] IN
                lenses[art.lens].tca[art.focal_length] = tcaFiles[LastTca(i)].fields
        /\ \A i \in DOMAIN vigFiles :
                LET art == vigFiles[i] IN
                lenses[art.lens].vignetting[art.focal_length][art.aperture][art.distance]
                    = vigFiles[LastVig(i)].fields

\* C22 witness: the scans are over and two .tca artifacts had the same
\* lens and focal length, as had two .vig artifacts their key.
C22_Witness ==
    /\ outExists
    /\ \E i, j \in DOMAIN tcaFiles : i < j /\ LastTca(i) = j
    /\ \E i, j \in DOMAIN vigFiles : i < j /\ LastVig(i) = j

\* A lens named by an artifact has no section in lenses.conf.
LensWithoutSection ==
    LET sections == {confFile[i].name : i \in DOMAIN confFile} IN
    \/ \E i \in DOMAIN tcaFiles : tcaFiles[i].lens \notin sections
    \/ \E i \in DOMAIN vigFiles : vigFiles[i].lens \notin sections

\* C23: when an artifact names a lens without a section in lenses.conf,
\* run_generate_xml never gets past its scans: it ends with a KeyError,
\* creates no output and never has that lens in the tree.
C23_MissingLensIsLookupFailure ==
    confExists /\ LensWithoutSection =>
        /\ xpc \in {"start", "tca", "vig", "raised"}
        /\ xpc = "raised" => xerr = "KeyError"
        /\ ~outExists
        /\ output = <<>>
        /\ DOMAIN lenses \subseteq {confFile[i].name : i \in DOMAIN confFile}

\* C23 witness: lenses.conf has a section, a .vig artifact names another
\* lens, and the run has ended with the KeyError after the tca scan.
C23_Witness ==
    /\ confFile # <<>>
    /\ tcaFiles = <<>>
    /\ LensWithoutSection
    /\ xpc = "raised"
    /\ xerr = "KeyError"
    /\ lenses # <<>>

\* The focal lengths, in tenths of a millimetre rounded, of the images of a
\* lens.
TenthsOf(lens) ==
    {(tplSamples[i].focal_length + 5) \div 10 :
        i \in {k \in DOMAIN tplSamples : tplSamples[k].lens_model = lens}}

\* C24: the template a distortion run writes has one section for every
\* lens that has an image and no other; the distortion entries of a section
\* are as many as the distinct focal lengths, at one decimal, of the images
\* of its lens, each is named after one of these focal lengths, and each
\* holds '0.0, 0.0, 0.0'.
C24_OneEntryPerFocalLength ==
    tplPc = "written" =>
        /\ \A i, j \in DOMAIN tplConf : i # j => tplConf[i].name # tplConf[j].name
        /\ {tplConf[i].name : i \in DOMAIN tplConf} =
                {tplSamples[i].lens_model : i \in DOMAIN tplSamples}
        /\ \A i \in DOMAIN tplConf :
                LET sec == tplConf[i] IN
                /\ Cardinality(DOMAIN sec.keys) = Cardinality(TenthsOf(sec.name))
                /\ \A k \in DOMAIN sec.keys :
                        /\ sec.keys[k] = <<"0", ".", "0", ",", " ", "0", ".", "0",
                                           ",", " ", "0", ".", "0">>
                        /\ \E t \in TenthsOf(sec.name) :
                                LET text == SubSeq(k, 12, Len(k) - 3)
                                    dot == IndexOf(text, ".")
                                IN  /\ dot = Len(text) - 1
                                    /\ DigitsToNat(SubSeq(text, 1, dot - 1)) * 10
                                         + DigitsToNat(<<text[Len(text)]>>) = t

\* C24 witness: a template is written for a lens with three images, two of
\* them with the same focal length at one decimal.
C24_Witness ==
    /\ tplPc = "written"
    /\ \E i \in DOMAIN tplConf :
            /\ Len(lenses_exif_group[tplConf[i].name]) = 3
            /\ Cardinality(DOMAIN tplConf[i].keys) = 2

\* C27: once the samples of a raster are binned, each of the 16 bins holds
\* at least one sample.
C27_NoBinEmpty ==
    binPc = "binned" =>
        /\ DOMAIN bins = 0..15
        /\ \A k \in DOMAIN bins : bins[k] # <<>>

\* C28: for a raster of width and height at least 2, the samples retained
\* are all its pixels, each once: the radius filter discards nothing.
C28_EveryPixelRetained ==
    binPc \in {"collected", "binned"} /\ rasterW >= 2 /\ rasterH >= 2 =>
        /\ Len(samples) = rasterW * rasterH
        /\ \A x \in 0..(rasterW - 1), y \in 0..(rasterH - 1) :
                Cardinality({i \in DOMAIN samples :
                                samples[i].x = x /\ samples[i].y = y}) = 1

\* C28 witness: the samples of a raster of even width and odd height are
\* collected, its first pixel, at radius 1, among them.
C28_Witness ==
    /\ binPc = "collected"
    /\ rasterW = 4
    /\ rasterH = 5
    /\ samples # <<>>
    /\ samples[1].x = 0 /\ samples[1].y = 0
    /\ samples[1].d2 = half_diagonal2(rasterW, rasterH)

\* C21: when the workflow has been invoked again with every tool working,
\* the job of a vignetting image has left its .vig record and its plot, the
\* job of a tca image its .tca record and, with complex TCA, its plot; and
\* no step whose output was there has been run again.
C21_ReinvocationCompletesJob ==
    jobRun = 2 /\ jobPc = "done" =>
        /\ jobWorkflow = "vignetting" => {"vig", "pdf"} \subseteq jobOut.arts
        /\ jobWorkflow = "tca" => "tca" \in jobOut.arts
        /\ jobWorkflow = "tca" /\ jobComplex => "pdf" \in jobOut.arts
        /\ "pgm" \in jobArts => "convert" \notin jobOut.invoked
        /\ "tca" \in jobArts => "tca_correct" \notin jobOut.invoked
        /\ "pdf" \in jobArts => "gnuplot" \notin jobOut.invoked

====
